---- MODULE Spec2Model ----
(***************************************************************************)
(* Model of the handle-based Stele (src/src/append.rs and its handles in   *)
(* src/src/append/) together with the index arithmetic of src/src/lib.rs.  *)
(*                                                                         *)
(* Shared state is the slot array `inners`, the counter `len` and the heap *)
(* blocks the slots point to.  The writer's push is split at every access  *)
(* to shared state; a reader's read is split the same way.  Handles are    *)
(* Arc clones: `strong` is the Arc's strong count and the drop of the last *)
(* handle runs Drop for Stele.                                             *)
(***************************************************************************)
EXTENDS Integers, Sequences, FiniteSets, TLC

VARIABLES
    sizeOfT,    \* core::mem::size_of::<T>() of the element type
    inners,     \* Stele.inners: slot -> pointer (NULL, DANGLING or a heap index)
    len,        \* Stele.len
    heap,       \* the allocator's blocks: pointer -> [cap, cells, frees, freeLen]
    strong,     \* strong count of the Arc<Stele<T>>
    w,          \* the WriteHandle and the position of its thread inside push
    rh,         \* the ReadHandles and the position of each one's thread
    pushLog,    \* history: <<value, index assigned>> of every push call
    allocLog,   \* history: every alloc_inner call followed by its compare_exchange
    deallocs,   \* history: every dealloc_inner call made by Drop
    dropRuns,   \* history: how many times Drop for Stele has run
    fault,      \* history: invalid accesses and panics that have happened
    calc        \* the last call of a pure function: [op, arg, res]

vars == <<sizeOfT, inners, len, heap, strong, w, rh, pushLog, allocLog,
          deallocs, dropRuns, fault, calc>>

----------------------------------------------------------------------------
(* Bounds of the model *)

\* pushes of one run with concurrent readers
MaxPush == 4
\* pushes of one run of the reclamation specification
MaxPushSeq == 33
\* pushes of one run with arbitrary element values
MaxPushVals == 5
\* reader handles that exist at the same time
MaxReaders == 2
\* distinct element values of a non-zero-sized T
NumVals == 2
\* the index arithmetic is exercised on the blocks 0..MaxBlock
MaxBlock == 6
\* pushes of one run with iterators
MaxPushIt == 3
\* iterators that exist at the same time while the writer pushes
MaxIters == 1
\* elements of the source collected by from_iter
MaxSrc == 3
\* pushes of one run with every reader-side operation
MaxPushFrame == 1
\* pushes of one run of the crate-root Stele
MaxPushRoot == 3
\* pushes of one run of two pushing threads on the crate-root Stele
MaxPushPar == 5

----------------------------------------------------------------------------
(* Program constants *)

NULL == 0
DANGLING == -1
WORD_SIZE == 64
UsizeBits == 64
\* the loom build: WORD_SIZE and SHIFT_OFFSET of lib.rs:27-30
LOOM_WORD_SIZE == 8
SHIFT_OFFSET == 56
NumSlots == 32

\* the element sizes tried: zero-sized, 1 byte, both ends of 2..=1023 bytes, larger
SizeOfTs == {0, 1, 2, 1023, 1024}

Slots == 0 .. (NumSlots - 1)

----------------------------------------------------------------------------
(* Integer helpers of the standard library, on the values the model uses *)

RECURSIVE Shl(_, _)
Shl(x, k) == IF k = 0 THEN x ELSE Shl(2 * x, k - 1)

RECURSIVE BitLen(_)
BitLen(x) == IF x = 0 THEN 0 ELSE 1 + BitLen(x \div 2)

leading_zeros(x) == UsizeBits - BitLen(x)

\* a test of "power of two" that leaves out 2^0
is_power_of_two_above_one(x) == x > 1 /\ Shl(1, BitLen(x) - 1) = x

is_power_of_two(x) == x > 0 /\ Shl(1, BitLen(x) - 1) = x

next_power_of_two(x) == IF x <= 1 THEN 1 ELSE Shl(1, BitLen(x - 1))

Max(a, b) == IF a >= b THEN a ELSE b

----------------------------------------------------------------------------
(* Index arithmetic, src/src/lib.rs *)

\* the block number taken as floor(log2(idx)) instead of floor(log2(idx)) + 1
split_idx_off_by_one(idx) ==
    IF idx = 0 THEN <<0, 0>>
    ELSE LET outer_idx == WORD_SIZE - leading_zeros(idx) - 1
             inner_idx == Shl(1, outer_idx)
         IN  <<outer_idx, idx - inner_idx>>

split_idx(idx) ==
    IF idx = 0 THEN <<0, 0>>
    ELSE LET outer_idx == WORD_SIZE - leading_zeros(idx)
             inner_idx == Shl(1, outer_idx - 1)
         IN  <<outer_idx, idx - inner_idx>>

\* A usize beyond the model checker's integers is written as its bits, most
\* significant first and without leading zeros (0 is <<>>).
RECURSIVE StripZeros(_)
StripZeros(b) == IF b # <<>> /\ Head(b) = 0 THEN StripZeros(Tail(b)) ELSE b

\* usize::leading_zeros on a number written as bits
leading_zeros_bits(b) == UsizeBits - Len(b)

\* split_idx, lib.rs:86-96, on a number written as bits: idx - (1 << (outer_idx
\* - 1)) clears the highest set bit
split_idx_bits(b) ==
    IF b = <<>> THEN <<0, <<>>>>
    ELSE LET outer_idx == WORD_SIZE - leading_zeros_bits(b)
         IN  <<outer_idx, StripZeros(Tail(b))>>

\* split_idx of the loom build, lib.rs:97-107, on idx < 256
split_idx_loom(idx) ==
    IF idx = 0 THEN <<0, 0>>
    ELSE LET outer_idx == LOOM_WORD_SIZE - (leading_zeros(idx) - SHIFT_OFFSET)
             inner_idx == Shl(1, outer_idx - 1)
         IN  <<outer_idx, idx - inner_idx>>

\* the capacity taken as 1 << n for every block
max_len_pow2(n) == Shl(1, n)

max_len(n) == IF n \in {0, 1} THEN 1 ELSE Shl(1, n - 1)

\* the middle range of INITIAL_SIZE written 2..=1024
initial_size_incl_1024(size_of_t) ==
    CASE size_of_t = 1 -> 3
      [] size_of_t \in 2 .. 1024 -> 2
      [] OTHER -> 1

\* src/src/append.rs:36-43
initial_size(size_of_t) ==
    CASE size_of_t = 1 -> 3
      [] size_of_t \in 2 .. 1023 -> 2
      [] OTHER -> 1

INITIAL_SIZE == initial_size(sizeOfT)

\* the values a T can take: a zero-sized type has one value
Vals == IF sizeOfT = 0 THEN {0} ELSE 1 .. NumVals

----------------------------------------------------------------------------
(* Memory: src/src/mem.rs *)

\* An Inner<T> is a MaybeUninit cell: {} while unwritten, {v} once written.
NewBlock(n) == [cap |-> n, cells |-> [k \in 1 .. n |-> {}], frees |-> 0, freeLen |-> 0]

\* alloc_inner(len): the pointer it returns.  A zero-sized T gets the dangling
\* sentinel and no block; otherwise the allocator hands out a fresh block
\* (allocation is taken to succeed).
alloc_inner_ptr(h) == IF sizeOfT = 0 THEN DANGLING ELSE Len(h) + 1

\* alloc_inner going to the allocator whatever the size of T is
alloc_inner_heap_any_size(h, n) == Append(h, NewBlock(n))

alloc_inner_heap(h, n) == IF sizeOfT = 0 THEN h ELSE Append(h, NewBlock(n))

IsBlock(p) == p \in DOMAIN heap

\* what dereferencing ptr.add(off) for a read finds
CellFaults(p, off) ==
    IF p = NULL THEN {"null_deref"}
    ELSE IF p = DANGLING THEN {}
    ELSE IF off >= heap[p].cap THEN {"out_of_bounds"}
    ELSE (IF heap[p].frees > 0 THEN {"use_after_free"} ELSE {})
         \cup (IF heap[p].cells[off + 1] = {} THEN {"unwritten_read"} ELSE {})

\* Inner::read / Inner::get: the value found; any value when the access is invalid
CellValues(p, off) ==
    IF p = DANGLING THEN {0}
    ELSE IF CellFaults(p, off) # {} THEN Vals
    ELSE heap[p].cells[off + 1]

----------------------------------------------------------------------------
(* The state after Stele::new() *)

IdleWriter == [alive |-> TRUE, pc |-> "idle", idx |-> 0, val |-> 0, todo |-> <<>>]

\* A ReadHandle and the thread that uses it: pc/op/idx/ptr are the call that is
\* running, obs the last length the handle loaded, it/snap/pos/fin/out the
\* iterator made from the handle (kind, len, pos, whether next has returned
\* None, and the items yielded so far).
NoReader ==
    [alive |-> FALSE, pc |-> "idle", op |-> "none", obs |-> 0, idx |-> 0, ptr |-> NULL,
     it |-> "none", snap |-> 0, pos |-> 0, fin |-> FALSE, out |-> <<>>]

FreshReader == [NoReader EXCEPT !.alive = TRUE]

Readers == 1 .. MaxReaders

NoCall == [op |-> "none", arg |-> <<>>, res |-> <<>>]

Init ==
    /\ sizeOfT \in SizeOfTs
    /\ inners = [i \in Slots |-> NULL]
    /\ len = 0
    /\ heap = <<>>
    /\ strong = 2
    /\ w = IdleWriter
    /\ rh = [r \in Readers |-> IF r = 1 THEN FreshReader ELSE NoReader]
    /\ pushLog = <<>>
    /\ allocLog = <<>>
    /\ deallocs = <<>>
    /\ dropRuns = 0
    /\ fault = {}
    /\ calc = NoCall

----------------------------------------------------------------------------
(* Stele::push through the WriteHandle, src/src/append.rs:76-92 *)

\* the index reserved with fetch_add(1), as the push of lib.rs:224 does
PushLoadFetchAdd(v) ==
    /\ w.alive /\ w.pc = "idle"
    /\ w' = [w EXCEPT !.pc = "check", !.idx = len, !.val = v]
    /\ len' = len + 1
    /\ pushLog' = Append(pushLog, <<v, len>>)
    /\ UNCHANGED <<sizeOfT, inners, heap, strong, rh, allocLog, deallocs,
                   dropRuns, fault, calc>>

\* line 77: let idx = self.len.load(Acquire)
PushLoad(v) ==
    /\ w.alive /\ w.pc = "idle"
    /\ w' = [w EXCEPT !.pc = "check", !.idx = len, !.val = v]
    /\ pushLog' = Append(pushLog, <<v, len>>)
    /\ UNCHANGED <<sizeOfT, inners, len, heap, strong, rh, allocLog, deallocs,
                   dropRuns, fault, calc>>

\* the trigger of the first writer (src/src/writer.rs): every power of two and 0
NeedsAllocEveryPow2(idx) == is_power_of_two(idx) \/ idx = 0

\* the trigger without the is_empty() test for the initial blocks
NeedsAllocNoEmptyTest(idx) ==
    LET outer_idx == split_idx(idx)[1]
    IN  \/ (is_power_of_two(idx) /\ outer_idx > INITIAL_SIZE)
        \/ outer_idx <= INITIAL_SIZE

\* lines 82-83: the allocation trigger (is_empty() loads len again)
NeedsAlloc(idx) ==
    LET outer_idx == split_idx(idx)[1]
    IN  \/ (is_power_of_two(idx) /\ outer_idx > INITIAL_SIZE)
        \/ (outer_idx <= INITIAL_SIZE /\ len = 0)

\* the loop of allocate(0) written 0..INITIAL_SIZE, without the last slot
AllocateSlotsExclusive(idx) ==
    IF idx = 0 THEN [k \in 1 .. INITIAL_SIZE |-> k - 1] ELSE <<idx>>

\* lines 95-113: the slots allocate(idx) installs, in order
AllocateSlots(idx) ==
    IF idx = 0 THEN [k \in 1 .. (INITIAL_SIZE + 1) |-> k - 1] ELSE <<idx>>

\* the length store moved up in front of the allocation and the cell write
PushCheckPublishing ==
    /\ w.alive /\ w.pc = "check"
    /\ LET need == NeedsAlloc(w.idx)
       IN  w' = [w EXCEPT !.pc = IF need THEN "alloc" ELSE "write",
                          !.todo = IF need THEN AllocateSlots(split_idx(w.idx)[1])
                                   ELSE <<>>]
    /\ len' = w.idx + 1
    /\ UNCHANGED <<sizeOfT, inners, heap, strong, rh, pushLog, allocLog,
                   deallocs, dropRuns, fault, calc>>

PushCheck ==
    /\ w.alive /\ w.pc = "check"
    /\ LET need == NeedsAlloc(w.idx)
       IN  w' = [w EXCEPT !.pc = IF need THEN "alloc" ELSE "write",
                          !.todo = IF need THEN AllocateSlots(split_idx(w.idx)[1])
                                   ELSE <<>>]
    /\ UNCHANGED <<sizeOfT, inners, len, heap, strong, rh, pushLog, allocLog,
                   deallocs, dropRuns, fault, calc>>

\* growth in the manner of a vector: the new block is installed and the cells
\* of the block before it are moved out (left uninitialised)
AllocStepMoving ==
    /\ w.alive /\ w.pc = "alloc"
    /\ LET i == Head(w.todo)
           n == max_len(i)
           p == alloc_inner_ptr(heap)
           ok == inners[i] = NULL
           old == IF i > 0 THEN inners[i - 1] ELSE NULL
           grown == alloc_inner_heap(heap, n)
       IN  /\ heap' = IF IsBlock(old)
                      THEN [grown EXCEPT ![old].cells = [c \in DOMAIN @ |-> {}]]
                      ELSE grown
           /\ allocLog' = Append(allocLog, [slot |-> i, ptr |-> p, len |-> n, ok |-> ok])
           /\ inners' = IF ok THEN [inners EXCEPT ![i] = p] ELSE inners
           /\ fault' = IF ok THEN fault ELSE fault \cup {"cas_failed"}
           /\ w' = [w EXCEPT !.todo = Tail(w.todo),
                             !.pc = IF ~ok THEN "dead"
                                    ELSE IF Tail(w.todo) = <<>> THEN "write"
                                    ELSE "alloc"]
    /\ UNCHANGED <<sizeOfT, len, strong, rh, pushLog, deallocs, dropRuns, calc>>

\* lines 97-102 / 105-112: alloc_inner(max_len(i)), then compare_exchange(null, ptr)
\* on slot i; a failed exchange panics through expect.
AllocStep ==
    /\ w.alive /\ w.pc = "alloc"
    /\ LET i == Head(w.todo)
           n == max_len(i)
           p == alloc_inner_ptr(heap)
           ok == inners[i] = NULL
       IN  /\ heap' = alloc_inner_heap(heap, n)
           /\ allocLog' = Append(allocLog, [slot |-> i, ptr |-> p, len |-> n, ok |-> ok])
           /\ inners' = IF ok THEN [inners EXCEPT ![i] = p] ELSE inners
           /\ fault' = IF ok THEN fault ELSE fault \cup {"cas_failed"}
           /\ w' = [w EXCEPT !.todo = Tail(w.todo),
                             !.pc = IF ~ok THEN "dead"
                                    ELSE IF Tail(w.todo) = <<>> THEN "write"
                                    ELSE "alloc"]
    /\ UNCHANGED <<sizeOfT, len, strong, rh, pushLog, deallocs, dropRuns, calc>>

\* the cell write without .add(inner_idx): always the first cell of the block
PushWriteNoOffset ==
    /\ w.alive /\ w.pc = "write"
    /\ LET s == split_idx(w.idx)
           p == inners[s[1]]
           bad == IF p = NULL THEN {"writer_null_deref"} ELSE {}
       IN  /\ fault' = fault \cup bad
           /\ heap' = IF bad = {} /\ IsBlock(p)
                      THEN [heap EXCEPT ![p].cells[1] = {w.val}]
                      ELSE heap
           /\ w' = [w EXCEPT !.pc = IF bad = {} THEN "store" ELSE "dead"]
    /\ UNCHANGED <<sizeOfT, inners, len, strong, rh, pushLog, allocLog, deallocs,
                   dropRuns, calc>>

\* lines 87-89: *self.inners[outer_idx].load(Acquire).add(inner_idx) = Inner::new(val)
\* Only the writer stores to slots, so the load and the cell write are one step.
PushWrite ==
    /\ w.alive /\ w.pc = "write"
    /\ LET s == split_idx(w.idx)
           p == inners[s[1]]
           bad == IF p = NULL THEN {"writer_null_deref"}
                  ELSE IF p = DANGLING THEN {}
                  ELSE IF s[2] >= heap[p].cap THEN {"writer_out_of_bounds"}
                  ELSE {}
       IN  /\ fault' = fault \cup bad
           /\ heap' = IF bad = {} /\ IsBlock(p)
                      THEN [heap EXCEPT ![p].cells[s[2] + 1] = {w.val}]
                      ELSE heap
           /\ w' = [w EXCEPT !.pc = IF bad = {} THEN "store" ELSE "dead"]
    /\ UNCHANGED <<sizeOfT, inners, len, strong, rh, pushLog, allocLog, deallocs,
                   dropRuns, calc>>

\* the length published one too far: store(idx + 2)
PushStoreTooFar ==
    /\ w.alive /\ w.pc = "store"
    /\ len' = w.idx + 2
    /\ w' = [w EXCEPT !.pc = "idle"]
    /\ UNCHANGED <<sizeOfT, inners, heap, strong, rh, pushLog, allocLog, deallocs,
                   dropRuns, fault, calc>>

\* the offset within the block published instead of the index: store(inner_idx + 1)
PushStoreInner ==
    /\ w.alive /\ w.pc = "store"
    /\ len' = split_idx(w.idx)[2] + 1
    /\ w' = [w EXCEPT !.pc = "idle"]
    /\ UNCHANGED <<sizeOfT, inners, heap, strong, rh, pushLog, allocLog, deallocs,
                   dropRuns, fault, calc>>

\* a length store that waits until no reader is inside a call (a grace period)
PushStoreWhenQuiet ==
    /\ w.alive /\ w.pc = "store"
    /\ \A r \in DOMAIN rh : rh[r].pc \notin {"slot", "cell"}
    /\ len' = w.idx + 1
    /\ w' = [w EXCEPT !.pc = "idle"]
    /\ UNCHANGED <<sizeOfT, inners, heap, strong, rh, pushLog, allocLog, deallocs,
                   dropRuns, fault, calc>>

\* line 91: self.len.store(idx + 1, Release)
PushStore ==
    /\ w.alive /\ w.pc = "store"
    /\ len' = w.idx + 1
    /\ w' = [w EXCEPT !.pc = "idle"]
    /\ UNCHANGED <<sizeOfT, inners, heap, strong, rh, pushLog, allocLog, deallocs,
                   dropRuns, fault, calc>>

----------------------------------------------------------------------------
(* Reads, src/src/append.rs:116-147 and src/src/append/reader.rs *)

\* Stele::is_empty, lines 135-137, which WriteHandle::is_empty and
\* ReadHandle::is_empty call: self.len() == 0
is_empty == len = 0

\* Stele::read_raw, lines 140-147: the slot pointer loaded and the offset added
read_raw(idx) == <<inners[split_idx(idx)[1]], split_idx(idx)[2]>>

\* ReadHandle::len / is_empty: self.len.load(Acquire)
ReaderLen(r) ==
    /\ rh[r].alive /\ rh[r].pc = "idle"
    /\ rh' = [rh EXCEPT ![r].obs = len]
    /\ UNCHANGED <<sizeOfT, inners, len, heap, strong, w, pushLog, allocLog,
                   deallocs, dropRuns, fault, calc>>

\* Stele::read, line 117: debug_assert!(self.len.load(Acquire) > idx).
\* The caller keeps the contract: idx is below a length this handle has loaded.
ReadBegin(r, idx) ==
    /\ rh[r].alive /\ rh[r].pc = "idle"
    /\ idx < rh[r].obs
    /\ rh' = [rh EXCEPT ![r].idx = idx,
                        ![r].pc = IF len > idx THEN "slot" ELSE "dead"]
    /\ fault' = IF len > idx THEN fault ELSE fault \cup {"assert_failed"}
    /\ UNCHANGED <<sizeOfT, inners, len, heap, strong, w, pushLog, allocLog,
                   deallocs, dropRuns, calc>>

\* Stele::read_raw, line 143-144: self.inners[outer_idx].load(Acquire)
ReadSlot(r) ==
    /\ rh[r].alive /\ rh[r].pc = "slot"
    /\ rh' = [rh EXCEPT ![r].ptr = read_raw(rh[r].idx)[1], ![r].pc = "cell"]
    /\ UNCHANGED <<sizeOfT, inners, len, heap, strong, w, pushLog, allocLog,
                   deallocs, dropRuns, fault, calc>>

\* Stele::read, line 118: (*ptr.add(inner_idx)).read(), which gives a value of
\* CellValues(ptr, inner_idx) to the caller; the call returns.
ReadCell(r) ==
    /\ rh[r].alive /\ rh[r].pc = "cell"
    /\ fault' = fault \cup CellFaults(rh[r].ptr, split_idx(rh[r].idx)[2])
    /\ rh' = [rh EXCEPT ![r].pc = "idle", ![r].idx = 0, ![r].ptr = NULL]
    /\ UNCHANGED <<sizeOfT, inners, len, heap, strong, w, pushLog, allocLog,
                   deallocs, dropRuns, calc>>

\* WriteHandle::read (append/writer.rs:52-54) called by the writer's thread
\* between two pushes, as tests::reads and read_through_writer do: the whole
\* of Stele::read in one step.  calc records the index and the length at the
\* call, and the value returned (-1: the bounds assertion failed, no value).
WriterRead(idx) ==
    /\ w.alive /\ w.pc = "idle"
    /\ LET p == read_raw(idx)
           ok == len > idx
       IN  /\ fault' = fault \cup (IF ok THEN CellFaults(p[1], p[2]) ELSE {})
           /\ \E v \in (IF ok THEN CellValues(p[1], p[2]) ELSE {-1}) :
                calc' = [op |-> "read", arg |-> <<idx, len>>, res |-> v]
    /\ UNCHANGED <<sizeOfT, inners, len, heap, strong, w, rh, pushLog, allocLog,
                   deallocs, dropRuns>>

\* Stele::read, append.rs:116-119, as one call on a thread no push interleaves
\* with: the values it can return; none where the bounds assertion fails
read(idx) ==
    IF len > idx THEN CellValues(read_raw(idx)[1], read_raw(idx)[2]) ELSE {}

\* a get that dereferences the slot pointer without .add(inner_idx)
get_block_start(idx) ==
    IF len > idx THEN CellValues(read_raw(idx)[1], 0) ELSE {}

\* Stele::get, append.rs:151-154: a copy of the cell read_raw(idx) points to
get(idx) ==
    IF len > idx THEN CellValues(read_raw(idx)[1], read_raw(idx)[2]) ELSE {}

\* the thread that holds the WriteHandle and the ReadHandle r reads idx through
\* both, as read_through_writer does (test.rs:61-64) after rh.len() and
\* wh.len(): wh.read, wh.get, rh.read, rh.get, rh[idx].  Every handle
\* dereferences the same Arc<Stele<T>>.  calc records r, idx and the number of
\* pushes made, then the five values and the two lengths.
ReadThroughBoth(r, idx) ==
    /\ w.alive /\ w.pc = "idle"
    /\ rh[r].alive /\ rh[r].pc = "idle" /\ rh[r].it = "none"
    /\ idx < len
    /\ fault' = fault \cup CellFaults(read_raw(idx)[1], read_raw(idx)[2])
    /\ \E wr \in read(idx) : \E wg \in get(idx) :
       \E rr \in read(idx) : \E rg \in get(idx) : \E ri \in read(idx) :
         calc' = [op |-> "through_both", arg |-> <<r, idx, Len(pushLog)>>,
                  res |-> <<wr, wg, rr, rg, ri, len, len>>]
    /\ UNCHANGED <<sizeOfT, inners, len, heap, strong, w, rh, pushLog, allocLog,
                   deallocs, dropRuns>>

----------------------------------------------------------------------------
(* The reading calls of a ReadHandle with any index, src/src/append/reader.rs *)

\* the calls that go through the bounds assertion: ReadHandle::read
\* (reader.rs:27-29), ReadHandle::get (71-73) and Index::index (107-109)
AssertingOps == {"read", "get", "index"}

\* a read that goes on to the slot whatever the length is (the assertion
\* compiled out)
ReadCallUnchecked(r, op, idx) ==
    /\ rh[r].alive /\ rh[r].pc = "idle" /\ rh[r].it = "none"
    /\ rh' = [rh EXCEPT ![r].op = op, ![r].idx = idx, ![r].pc = "slot"]
    /\ UNCHANGED <<sizeOfT, inners, len, heap, strong, w, pushLog, allocLog,
                   deallocs, dropRuns, fault, calc>>

\* Stele::read (append.rs:116-119) / Stele::get (151-154) called with any idx:
\* debug_assert!(self.len.load(Acquire) > idx) panics the calling thread when
\* it fails (debug build), otherwise the call goes on to read_raw.
ReadCall(r, op, idx) ==
    /\ rh[r].alive /\ rh[r].pc = "idle" /\ rh[r].it = "none"
    /\ rh' = [rh EXCEPT ![r].op = op, ![r].idx = idx,
                        ![r].pc = IF len > idx THEN "slot" ELSE "dead"]
    /\ fault' = IF len > idx THEN fault ELSE fault \cup {"assert_failed"}
    /\ UNCHANGED <<sizeOfT, inners, len, heap, strong, w, pushLog, allocLog,
                   deallocs, dropRuns, calc>>

\* a try_read that leaves the bound to the null check of as_ref()
TryReadNoBound(r, idx) ==
    /\ rh[r].alive /\ rh[r].pc = "idle" /\ rh[r].it = "none"
    /\ rh' = [rh EXCEPT ![r].op = "try_read", ![r].idx = idx, ![r].obs = len,
                        ![r].pc = "slot"]
    /\ UNCHANGED <<sizeOfT, inners, len, heap, strong, w, pushLog, allocLog,
                   deallocs, dropRuns, fault, calc>>

\* Stele::try_read, append.rs:121-125: if idx >= self.len() { None } else the
\* call goes on to read_raw
TryReadCall(r, idx) ==
    /\ rh[r].alive /\ rh[r].pc = "idle" /\ rh[r].it = "none"
    /\ rh' = [rh EXCEPT ![r].op = "try_read", ![r].idx = idx, ![r].obs = len,
                        ![r].pc = IF idx >= len THEN "none" ELSE "slot"]
    /\ UNCHANGED <<sizeOfT, inners, len, heap, strong, w, pushLog, allocLog,
                   deallocs, dropRuns, fault, calc>>

\* try_read, line 127: read_raw(idx).as_ref()? gives None for a null pointer
AsRefNone(r) ==
    rh[r].op = "try_read" /\ rh[r].ptr = NULL /\ split_idx(rh[r].idx)[2] = 0

\* the values the running call of r can give back when it dereferences its
\* pointer (Inner::read / Inner::get); no value where as_ref() gives None
CallResults(r) ==
    IF AsRefNone(r) THEN {} ELSE CellValues(rh[r].ptr, split_idx(rh[r].idx)[2])

\* a read that moves the value out of the cell (ptr::read of the cell, which
\* is left uninitialised) instead of borrowing or copying it
CallReturnTake(r) ==
    /\ rh[r].alive /\ rh[r].pc \in {"none", "cell"} /\ rh[r].it = "none"
    /\ rh[r].op # "none"
    /\ fault' = IF rh[r].pc = "none" \/ AsRefNone(r) THEN fault
                ELSE fault \cup CellFaults(rh[r].ptr, split_idx(rh[r].idx)[2])
    /\ heap' = IF rh[r].pc = "cell" /\ IsBlock(rh[r].ptr)
                  /\ split_idx(rh[r].idx)[2] < heap[rh[r].ptr].cap
               THEN [heap EXCEPT ![rh[r].ptr].cells[split_idx(rh[r].idx)[2] + 1] = {}]
               ELSE heap
    /\ rh' = [rh EXCEPT ![r].pc = "idle", ![r].op = "none", ![r].idx = 0,
                        ![r].ptr = NULL]
    /\ UNCHANGED <<sizeOfT, inners, len, strong, w, pushLog, allocLog,
                   deallocs, dropRuns, calc>>

\* the call returns to its caller: None (try_read, out of range or null
\* pointer) or the value found in the cell
CallReturn(r) ==
    /\ rh[r].alive /\ rh[r].pc \in {"none", "cell"} /\ rh[r].it = "none"
    /\ rh[r].op # "none"
    /\ fault' = IF rh[r].pc = "none" \/ AsRefNone(r) THEN fault
                ELSE fault \cup CellFaults(rh[r].ptr, split_idx(rh[r].idx)[2])
    /\ rh' = [rh EXCEPT ![r].pc = "idle", ![r].op = "none", ![r].idx = 0,
                        ![r].ptr = NULL]
    /\ UNCHANGED <<sizeOfT, inners, len, heap, strong, w, pushLog, allocLog,
                   deallocs, dropRuns, calc>>

\* WriteHandle::len (append/writer.rs:68-70) and WriteHandle::is_empty (79-81)
\* called by the writer's thread between two pushes.  calc records the number
\* of pushes called so far, then the length and the emptiness returned.
WriterLen ==
    /\ w.alive /\ w.pc = "idle"
    /\ calc' = [op |-> "len", arg |-> <<Len(pushLog)>>, res |-> <<len, is_empty>>]
    /\ UNCHANGED <<sizeOfT, inners, len, heap, strong, w, rh, pushLog, allocLog,
                   deallocs, dropRuns, fault>>

----------------------------------------------------------------------------
(* Drop for Stele, src/src/append.rs:173-197 *)

\* the block count without the eagerly allocated initial run
num_inners_no_max(size) == UsizeBits - leading_zeros(next_power_of_two(size))

\* lines 182-185
num_inners(size) ==
    Max(UsizeBits - leading_zeros(next_power_of_two(size)), INITIAL_SIZE + 1)

\* the element count taken as 1 << idx
dealloc_len_shift(idx) == Shl(1, idx)

\* lines 189 / 193: the element count handed to dealloc_inner for slot idx
dealloc_len(idx) == max_len(idx)

\* drop without the early return for size == 0
DropCallsNoEarlyReturn ==
    [k \in 1 .. num_inners(len) |->
        [slot |-> k - 1, ptr |-> inners[k - 1], len |-> dealloc_len(k - 1)]]

\* drop walking over the whole slot array, null slots included
DropCallsAllSlots ==
    IF len = 0 THEN <<>>
    ELSE [k \in 1 .. NumSlots |->
            [slot |-> k - 1, ptr |-> inners[k - 1], len |-> dealloc_len(k - 1)]]

\* lines 179-195: the dealloc_inner calls of one run of drop, in order
DropCalls ==
    IF len = 0 THEN <<>>
    ELSE [k \in 1 .. num_inners(len) |->
            [slot |-> k - 1, ptr |-> inners[k - 1], len |-> dealloc_len(k - 1)]]

\* mem.rs:68-75: the calls of the allocator's dealloc that a sequence of
\* dealloc_inner calls makes: none for a zero-sized T
AllocatorFrees(calls) == IF sizeOfT # 0 THEN Len(calls) ELSE 0

\* mem.rs:65-77: dealloc_inner hands a block back unless T is zero-sized
HeapAfter(calls) ==
    [p \in DOMAIN heap |->
        LET mine == {k \in DOMAIN calls : calls[k].ptr = p}
        IN  IF mine = {} \/ sizeOfT = 0 THEN heap[p]
            ELSE [heap[p] EXCEPT !.frees = @ + Cardinality(mine),
                                 !.freeLen = calls[CHOOSE k \in mine : TRUE].len]]

\* a variant of drop that takes the pointers out of the slots
SteleDropTake ==
    /\ deallocs' = deallocs \o DropCalls
    /\ heap' = HeapAfter(DropCalls)
    /\ inners' = [i \in Slots |-> IF i + 1 \in DOMAIN DropCalls THEN NULL ELSE inners[i]]
    /\ dropRuns' = dropRuns + 1
    /\ fault' = fault \cup (IF \E k \in DOMAIN DropCalls : DropCalls[k].ptr = NULL
                            THEN {"dealloc_null"} ELSE {})

SteleDrop ==
    /\ deallocs' = deallocs \o DropCalls
    /\ heap' = HeapAfter(DropCalls)
    /\ inners' = inners
    /\ dropRuns' = dropRuns + 1
    /\ fault' = fault \cup (IF \E k \in DOMAIN DropCalls : DropCalls[k].ptr = NULL
                            THEN {"dealloc_null"} ELSE {})

----------------------------------------------------------------------------
(* Handles: every handle holds one Arc<Stele<T>> *)

\* the drop of a handle's Arc: the last one runs Drop for Stele
ReleaseArc ==
    /\ strong' = strong - 1
    /\ IF strong = 1 THEN SteleDrop
       ELSE UNCHANGED <<deallocs, heap, inners, dropRuns, fault>>

\* the lowest handle number not in use
FreeReader(n) == ~rh[n].alive /\ \A m \in Readers : m < n => rh[m].alive

\* a Clone that copies the pointer without counting it
CloneReaderUncounted(r, n) ==
    /\ rh[r].alive
    /\ FreeReader(n)
    /\ rh' = [rh EXCEPT ![n] = FreshReader]
    /\ UNCHANGED <<sizeOfT, inners, len, heap, strong, w, pushLog, allocLog, deallocs,
                   dropRuns, fault, calc>>

\* Clone for ReadHandle, append/reader.rs:76-82
CloneReader(r, n) ==
    /\ rh[r].alive
    /\ FreeReader(n)
    /\ rh' = [rh EXCEPT ![n] = FreshReader]
    /\ strong' = strong + 1
    /\ UNCHANGED <<sizeOfT, inners, len, heap, w, pushLog, allocLog, deallocs,
                   dropRuns, fault, calc>>

\* a clone of the WriteHandle handed out instead of a new ReadHandle
CloneWriteHandle(n) ==
    /\ w.alive /\ w.pc = "idle"
    /\ FreeReader(n)
    /\ strong' = strong + 1
    /\ UNCHANGED <<sizeOfT, inners, len, heap, w, rh, pushLog, allocLog, deallocs,
                   dropRuns, fault, calc>>

\* WriteHandle::new_read_handle, append/writer.rs:40-44 (From<&Arc<Stele<T>>>)
NewReadHandle(n) ==
    /\ w.alive /\ w.pc = "idle"
    /\ FreeReader(n)
    /\ rh' = [rh EXCEPT ![n] = FreshReader]
    /\ strong' = strong + 1
    /\ UNCHANGED <<sizeOfT, inners, len, heap, w, pushLog, allocLog, deallocs,
                   dropRuns, fault, calc>>

\* a ReadHandle goes out of scope (no call on it is running)
DropReader(r) ==
    /\ rh[r].alive /\ rh[r].pc = "idle"
    /\ rh' = [rh EXCEPT ![r] = NoReader]
    /\ ReleaseArc
    /\ UNCHANGED <<sizeOfT, len, w, pushLog, allocLog, calc>>

\* the WriteHandle goes out of scope (between pushes)
DropWriter ==
    /\ w.alive /\ w.pc = "idle"
    /\ w' = [w EXCEPT !.alive = FALSE]
    /\ ReleaseArc
    /\ UNCHANGED <<sizeOfT, len, rh, pushLog, allocLog, calc>>

----------------------------------------------------------------------------
(* FromIterator for Stele and Stele::to_handles, src/src/append.rs:64-73, 157-171 *)

\* from_iter, lines 159-162: an owned Stele, not yet in an Arc and without
\* handles.  Its loop calls the same Stele::push on it (line 166), so `w` is the
\* collecting thread until to_handles makes the WriteHandle.
InitOwned ==
    /\ sizeOfT \in SizeOfTs
    /\ inners = [i \in Slots |-> NULL]
    /\ len = 0
    /\ heap = <<>>
    /\ strong = 0
    /\ w = IdleWriter
    /\ rh = [r \in Readers |-> NoReader]
    /\ pushLog = <<>>
    /\ allocLog = <<>>
    /\ deallocs = <<>>
    /\ dropRuns = 0
    /\ fault = {}
    /\ calc = NoCall

\* the Stele is still the owned value from_iter builds
Owned == strong = 0 /\ dropRuns = 0 /\ calc.op # "to_handles"

\* to_handles, lines 65-73: Arc::new(self), a WriteHandle with a clone of the
\* Arc and a ReadHandle with the Arc.  calc records the length and the number
\* of elements collected at the call.
to_handles ==
    /\ Owned /\ w.pc = "idle"
    /\ strong' = 2
    /\ rh' = [rh EXCEPT ![1] = FreshReader]
    /\ calc' = [op |-> "to_handles", arg |-> <<len, Len(pushLog)>>, res |-> <<>>]
    /\ UNCHANGED <<sizeOfT, inners, len, heap, w, pushLog, allocLog, deallocs,
                   dropRuns, fault>>

\* the collected Stele goes out of scope without to_handles
DropOwned ==
    /\ Owned /\ w.pc = "idle"
    /\ SteleDrop
    /\ w' = [w EXCEPT !.alive = FALSE]
    /\ UNCHANGED <<sizeOfT, len, strong, rh, pushLog, allocLog, calc>>

\* the thread of r has panicked in a bounds assertion: unwinding drops the
\* handle the thread owns
ReaderUnwind(r) ==
    /\ rh[r].alive /\ rh[r].pc = "dead"
    /\ rh' = [rh EXCEPT ![r] = NoReader]
    /\ ReleaseArc
    /\ UNCHANGED <<sizeOfT, len, w, pushLog, allocLog, calc>>

----------------------------------------------------------------------------
(* RefIterator and CopyIterator, src/src/append/iter.rs *)

IterKinds == {"ref", "copy"}

\* an iterator constructed with pos: 1
IterNewFromOne(r, kind) ==
    /\ rh[r].alive /\ rh[r].pc = "idle" /\ rh[r].it = "none"
    /\ rh' = [rh EXCEPT ![r].it = kind, ![r].snap = len, ![r].obs = len,
                        ![r].pos = 1, ![r].fin = FALSE, ![r].out = <<>>]
    /\ UNCHANGED <<sizeOfT, inners, len, heap, strong, w, pushLog, allocLog,
                   deallocs, dropRuns, fault, calc>>

\* RefIterator::new (iter.rs:14-20, borrows the handle) and CopyIterator::new
\* (45-52, takes the handle): pos: 0, len: handle.len()
IterNew(r, kind) ==
    /\ rh[r].alive /\ rh[r].pc = "idle" /\ rh[r].it = "none"
    /\ rh' = [rh EXCEPT ![r].it = kind, ![r].snap = len, ![r].obs = len,
                        ![r].pos = 0, ![r].fin = FALSE, ![r].out = <<>>]
    /\ UNCHANGED <<sizeOfT, inners, len, heap, strong, w, pushLog, allocLog,
                   deallocs, dropRuns, fault, calc>>

\* a next that compares pos with the current length instead of the snapshot
IterNextLive(r) ==
    /\ rh[r].alive /\ rh[r].pc = "idle" /\ rh[r].it # "none"
    /\ IF len > rh[r].pos
       THEN /\ rh' = [rh EXCEPT ![r].pos = @ + 1,
                                ![r].op = IF rh[r].it = "ref" THEN "read" ELSE "get",
                                ![r].idx = rh[r].pos,
                                ![r].pc = IF len > rh[r].pos THEN "slot" ELSE "dead"]
            /\ fault' = IF len > rh[r].pos THEN fault ELSE fault \cup {"assert_failed"}
       ELSE /\ rh' = [rh EXCEPT ![r].fin = TRUE]
            /\ fault' = fault
    /\ UNCHANGED <<sizeOfT, inners, len, heap, strong, w, pushLog, allocLog,
                   deallocs, dropRuns, calc>>

\* a next that reads at pos after the increment instead of pos - 1
IterNextOffByOne(r) ==
    /\ rh[r].alive /\ rh[r].pc = "idle" /\ rh[r].it # "none"
    /\ IF rh[r].snap > rh[r].pos
       THEN /\ rh' = [rh EXCEPT ![r].pos = @ + 1,
                                ![r].op = IF rh[r].it = "ref" THEN "read" ELSE "get",
                                ![r].idx = rh[r].pos + 1,
                                ![r].pc = IF len > rh[r].pos + 1 THEN "slot" ELSE "dead"]
            /\ fault' = IF len > rh[r].pos + 1 THEN fault
                        ELSE fault \cup {"assert_failed"}
       ELSE /\ rh' = [rh EXCEPT ![r].fin = TRUE]
            /\ fault' = fault
    /\ UNCHANGED <<sizeOfT, inners, len, heap, strong, w, pushLog, allocLog,
                   deallocs, dropRuns, calc>>

\* Iterator::next (iter.rs:26-31 and 58-63): (self.len > self.pos).then(|| {
\* self.pos += 1; self.handle.read(self.pos - 1) }) -- up to the bounds
\* assertion of Stele::read / Stele::get; None when pos has reached len
IterNext(r) ==
    /\ rh[r].alive /\ rh[r].pc = "idle" /\ rh[r].it # "none"
    /\ IF rh[r].snap > rh[r].pos
       THEN /\ rh' = [rh EXCEPT ![r].pos = @ + 1,
                                ![r].op = IF rh[r].it = "ref" THEN "read" ELSE "get",
                                ![r].idx = rh[r].pos,
                                ![r].pc = IF len > rh[r].pos THEN "slot" ELSE "dead"]
            /\ fault' = IF len > rh[r].pos THEN fault ELSE fault \cup {"assert_failed"}
       ELSE /\ rh' = [rh EXCEPT ![r].fin = TRUE]
            /\ fault' = fault
    /\ UNCHANGED <<sizeOfT, inners, len, heap, strong, w, pushLog, allocLog,
                   deallocs, dropRuns, calc>>

\* the read inside next returns and next yields the item
IterYield(r) ==
    /\ rh[r].alive /\ rh[r].pc = "cell" /\ rh[r].it # "none"
    /\ fault' = fault \cup CellFaults(rh[r].ptr, split_idx(rh[r].idx)[2])
    /\ \E v \in CallResults(r) :
         rh' = [rh EXCEPT ![r].out = Append(@, v), ![r].pc = "idle",
                          ![r].op = "none", ![r].idx = 0, ![r].ptr = NULL]
    /\ UNCHANGED <<sizeOfT, inners, len, heap, strong, w, pushLog, allocLog,
                   deallocs, dropRuns, calc>>

\* the iterator goes out of scope: a RefIterator gives the borrow back, a
\* CopyIterator drops the ReadHandle it owns
IterEnd(r) ==
    /\ rh[r].alive /\ rh[r].pc = "idle" /\ rh[r].it # "none"
    /\ IF rh[r].it = "ref"
       THEN /\ rh' = [rh EXCEPT ![r].it = "none", ![r].snap = 0, ![r].pos = 0,
                                ![r].fin = FALSE, ![r].out = <<>>]
            /\ UNCHANGED <<strong, deallocs, heap, inners, dropRuns, fault>>
       ELSE /\ rh' = [rh EXCEPT ![r] = NoReader]
            /\ ReleaseArc
    /\ UNCHANGED <<sizeOfT, len, w, pushLog, allocLog, calc>>

\* The owning-copy iterator of the allocator-aware variant and of the older
\* one (append_alloc/iter.rs:40-70 CopyIterator, iter.rs:33-62 CopyIter): the
\* struct is { handle, pos } and new is Self { handle, pos: 0 }. It has no len
\* field: the record field snap only remembers the length at construction so
\* that properties can speak of it, and no action of the iterator reads it.
CopyIterNew(r) ==
    /\ rh[r].alive /\ rh[r].pc = "idle" /\ rh[r].it = "none"
    /\ rh' = [rh EXCEPT ![r].it = "copy", ![r].snap = len, ![r].obs = len,
                        ![r].pos = 0, ![r].fin = FALSE, ![r].out = <<>>]
    /\ UNCHANGED <<sizeOfT, inners, len, heap, strong, w, pushLog, allocLog,
                   deallocs, dropRuns, fault, calc>>

\* append_alloc/iter.rs:61-69 (iter.rs:53-61): if self.len() > self.pos, where
\* len() is self.handle.len(), a load of the length in every call; then
\* get(pos), whose debug assertion loads the length again
CopyIterNext(r) ==
    /\ rh[r].alive /\ rh[r].pc = "idle" /\ rh[r].it = "copy"
    /\ IF len > rh[r].pos
       THEN rh' = [rh EXCEPT ![r].pos = @ + 1, ![r].op = "get",
                             ![r].idx = rh[r].pos, ![r].obs = len,
                             ![r].pc = "slot"]
       ELSE rh' = [rh EXCEPT ![r].fin = TRUE, ![r].obs = len]
    /\ UNCHANGED <<sizeOfT, inners, len, heap, strong, w, pushLog, allocLog,
                   deallocs, dropRuns, fault, calc>>

----------------------------------------------------------------------------
(* The crate-root Stele of src/src/lib.rs: one owned structure that threads   *)
(* share by reference; `len` is its field cap, `w` a thread that pushes and   *)
(* `rh` the threads that read.                                                *)

\* lib.rs:224: let idx = self.cap.fetch_add(1, AcqRel)
RootPush(v) ==
    /\ dropRuns = 0
    /\ w.alive /\ w.pc = "idle"
    /\ w' = [w EXCEPT !.pc = "check", !.idx = len, !.val = v]
    /\ len' = len + 1
    /\ pushLog' = Append(pushLog, <<v, len>>)
    /\ UNCHANGED <<sizeOfT, inners, heap, strong, rh, allocLog, deallocs,
                   dropRuns, fault, calc>>

\* a trigger that lets every push allocate
RootNeedsAllocAlways(idx) == idx >= 0

\* lib.rs:228: if idx.is_power_of_two() || idx == 0 || idx == 1
RootNeedsAlloc(idx) == is_power_of_two(idx) \/ idx = 0 \/ idx = 1

\* writer.rs:28 (append_alloc/writer.rs:27): if idx.is_power_of_two() || idx == 0
HandleNeedsAlloc(idx) == is_power_of_two(idx) \/ idx = 0

\* lib.rs:225-229: split_idx, the trigger, the call of allocate(oidx, max_len(oidx))
RootPushCheck ==
    /\ w.alive /\ w.pc = "check"
    /\ LET need == RootNeedsAlloc(w.idx)
       IN  w' = [w EXCEPT !.pc = IF need THEN "alloc" ELSE "write",
                          !.todo = IF need THEN <<split_idx(w.idx)[1]>> ELSE <<>>]
    /\ UNCHANGED <<sizeOfT, inners, len, heap, strong, rh, pushLog, allocLog,
                   deallocs, dropRuns, fault, calc>>

\* lib.rs:266-276: allocate: alloc_inner(len), compare_exchange(null, ptr), expect
RootAllocate ==
    /\ w.alive /\ w.pc = "alloc"
    /\ LET i == Head(w.todo)
           n == max_len(i)
           p == alloc_inner_ptr(heap)
           ok == inners[i] = NULL
       IN  /\ heap' = alloc_inner_heap(heap, n)
           /\ allocLog' = Append(allocLog, [slot |-> i, ptr |-> p, len |-> n, ok |-> ok])
           /\ inners' = IF ok THEN [inners EXCEPT ![i] = p] ELSE inners
           /\ fault' = IF ok THEN fault ELSE fault \cup {"cas_failed"}
           /\ w' = [w EXCEPT !.todo = <<>>, !.pc = IF ok THEN "write" ELSE "dead"]
    /\ UNCHANGED <<sizeOfT, len, strong, rh, pushLog, deallocs, dropRuns, calc>>

\* lib.rs:231-232: *self.inners[oidx].load(Acquire).add(iidx) = Inner::init(val),
\* then the fence; push returns
RootPushWrite ==
    /\ w.alive /\ w.pc = "write"
    /\ LET s == split_idx(w.idx)
           p == inners[s[1]]
           bad == IF p = NULL THEN {"writer_null_deref"}
                  ELSE IF p = DANGLING THEN {}
                  ELSE IF s[2] >= heap[p].cap THEN {"writer_out_of_bounds"}
                  ELSE {}
       IN  /\ fault' = fault \cup bad
           /\ heap' = IF bad = {} /\ IsBlock(p)
                      THEN [heap EXCEPT ![p].cells[s[2] + 1] = {w.val}]
                      ELSE heap
           /\ w' = [w EXCEPT !.pc = IF bad = {} THEN "idle" ELSE "dead"]
    /\ UNCHANGED <<sizeOfT, inners, len, strong, rh, pushLog, allocLog, deallocs,
                   dropRuns, calc>>

\* Stele is Sync and push takes &self (lib.rs:133-134, 223): any thread that
\* holds a reference may push. The same four steps of push run by the thread
\* of rh[r]; its value is the entry of pushLog made at the fetch_add.
RootPushBy(r, v) ==
    /\ dropRuns = 0
    /\ rh[r].alive /\ rh[r].pc = "idle"
    /\ rh' = [rh EXCEPT ![r].op = "push", ![r].idx = len, ![r].pc = "check"]
    /\ len' = len + 1
    /\ pushLog' = Append(pushLog, <<v, len>>)
    /\ UNCHANGED <<sizeOfT, inners, heap, strong, w, allocLog, deallocs,
                   dropRuns, fault, calc>>

\* a trigger without the test for index 0
RootPushCheckByNoZero(r) ==
    /\ rh[r].alive /\ rh[r].op = "push" /\ rh[r].pc = "check"
    /\ rh' = [rh EXCEPT ![r].pc = IF is_power_of_two(rh[r].idx) THEN "alloc"
                                  ELSE "write"]
    /\ UNCHANGED <<sizeOfT, inners, len, heap, strong, w, pushLog, allocLog,
                   deallocs, dropRuns, fault, calc>>

\* lib.rs:225-229 on the thread of rh[r]
RootPushCheckBy(r) ==
    /\ rh[r].alive /\ rh[r].op = "push" /\ rh[r].pc = "check"
    /\ rh' = [rh EXCEPT ![r].pc = IF RootNeedsAlloc(rh[r].idx) THEN "alloc"
                                  ELSE "write"]
    /\ UNCHANGED <<sizeOfT, inners, len, heap, strong, w, pushLog, allocLog,
                   deallocs, dropRuns, fault, calc>>

\* lib.rs:266-276 on the thread of rh[r]
RootAllocateBy(r) ==
    /\ rh[r].alive /\ rh[r].op = "push" /\ rh[r].pc = "alloc"
    /\ LET i == split_idx(rh[r].idx)[1]
           n == max_len(i)
           p == alloc_inner_ptr(heap)
           ok == inners[i] = NULL
       IN  /\ heap' = alloc_inner_heap(heap, n)
           /\ allocLog' = Append(allocLog, [slot |-> i, ptr |-> p, len |-> n, ok |-> ok])
           /\ inners' = IF ok THEN [inners EXCEPT ![i] = p] ELSE inners
           /\ fault' = IF ok THEN fault ELSE fault \cup {"cas_failed"}
           /\ rh' = [rh EXCEPT ![r].pc = IF ok THEN "write" ELSE "dead"]
    /\ UNCHANGED <<sizeOfT, len, strong, w, pushLog, deallocs, dropRuns, calc>>

\* lib.rs:231-232 on the thread of rh[r]; push returns
RootPushWriteBy(r) ==
    /\ rh[r].alive /\ rh[r].op = "push" /\ rh[r].pc = "write"
    /\ LET s == split_idx(rh[r].idx)
           p == inners[s[1]]
           v == pushLog[rh[r].idx + 1][1]
           bad == IF p = NULL THEN {"writer_null_deref"}
                  ELSE IF p = DANGLING THEN {}
                  ELSE IF s[2] >= heap[p].cap THEN {"writer_out_of_bounds"}
                  ELSE {}
       IN  /\ fault' = fault \cup bad
           /\ heap' = IF bad = {} /\ IsBlock(p)
                      THEN [heap EXCEPT ![p].cells[s[2] + 1] = {v}]
                      ELSE heap
           /\ rh' = IF bad = {}
                    THEN [rh EXCEPT ![r].pc = "idle", ![r].op = "none", ![r].idx = 0]
                    ELSE [rh EXCEPT ![r].pc = "dead"]
    /\ UNCHANGED <<sizeOfT, inners, len, strong, w, pushLog, allocLog, deallocs,
                   dropRuns, calc>>

\* lib.rs:249-251: len: self.cap.load(Acquire)
RootLen(r) ==
    /\ rh[r].alive /\ rh[r].pc = "idle"
    /\ rh' = [rh EXCEPT ![r].obs = len]
    /\ UNCHANGED <<sizeOfT, inners, len, heap, strong, w, pushLog, allocLog,
                   deallocs, dropRuns, fault, calc>>

\* lib.rs:185-186: read: debug_assert!(self.cap.load(Acquire) > idx), called with
\* an index below a length the thread has got from len()
RootRead(r, idx) ==
    /\ rh[r].alive /\ rh[r].pc = "idle"
    /\ idx < rh[r].obs
    /\ rh' = [rh EXCEPT ![r].op = "read", ![r].idx = idx,
                        ![r].pc = IF len > idx THEN "slot" ELSE "dead"]
    /\ fault' = IF len > idx THEN fault ELSE fault \cup {"assert_failed"}
    /\ UNCHANGED <<sizeOfT, inners, len, heap, strong, w, pushLog, allocLog,
                   deallocs, dropRuns, calc>>

\* lib.rs:203-206 (and reader.rs:26-29): try_read goes to read_raw without
\* looking at the length
RootTryRead(r, idx) ==
    /\ rh[r].alive /\ rh[r].pc = "idle"
    /\ rh' = [rh EXCEPT ![r].op = "try_read", ![r].idx = idx, ![r].pc = "slot"]
    /\ UNCHANGED <<sizeOfT, inners, len, heap, strong, w, pushLog, allocLog,
                   deallocs, dropRuns, fault, calc>>

\* lib.rs:163-166: read_raw: self.inners[oidx].load(Relaxed).add(iidx)
RootReadRaw(r) ==
    /\ rh[r].alive /\ rh[r].pc = "slot"
    /\ rh' = [rh EXCEPT ![r].ptr = read_raw(rh[r].idx)[1], ![r].pc = "cell"]
    /\ UNCHANGED <<sizeOfT, inners, len, heap, strong, w, pushLog, allocLog,
                   deallocs, dropRuns, fault, calc>>

\* the dereference of the pointer read_raw gave: (*ptr).read() in read,
\* ptr.as_ref()?.read() in try_read (None for a null pointer); calc records
\* the call that returned: its index, the length at the return and whether it
\* gave None
RootReturn(r) ==
    /\ rh[r].alive /\ rh[r].pc = "cell"
    /\ fault' = IF AsRefNone(r) THEN fault
                ELSE fault \cup CellFaults(rh[r].ptr, split_idx(rh[r].idx)[2])
    /\ calc' = [op |-> rh[r].op, arg |-> <<rh[r].idx, len>>, res |-> AsRefNone(r)]
    /\ rh' = [rh EXCEPT ![r].pc = "idle", ![r].op = "none", ![r].idx = 0,
                        ![r].ptr = NULL]
    /\ UNCHANGED <<sizeOfT, inners, len, heap, strong, w, pushLog, allocLog,
                   deallocs, dropRuns>>

\* lib.rs:331-334: num_inners = WORD_SIZE - size.leading_zeros()
root_num_inners(size) == WORD_SIZE - leading_zeros(size)

\* the loom build's count with the leading zeros taken as those of an 8-bit word
root_num_inners_loom_no_offset(size) == LOOM_WORD_SIZE - leading_zeros(size)

\* lib.rs:333-334, the loom build:
\* num_inners = WORD_SIZE - (size.leading_zeros() - SHIFT_OFFSET)
root_num_inners_loom(size) ==
    LOOM_WORD_SIZE - (leading_zeros(size) - SHIFT_OFFSET)

\* lib.rs:335-349: the dealloc_inner calls of drop, in order
RootDropCalls ==
    [k \in 1 .. root_num_inners(len) |->
        [slot |-> k - 1, ptr |-> inners[k - 1], len |-> max_len(k - 1)]]

\* Drop for Stele, lib.rs:325-350: the owner drops the structure when no
\* thread uses it any more
RootDrop ==
    /\ dropRuns = 0
    /\ w.alive /\ w.pc = "idle"
    /\ \A r \in Readers : rh[r].pc = "idle"
    /\ deallocs' = deallocs \o RootDropCalls
    /\ heap' = HeapAfter(RootDropCalls)
    /\ dropRuns' = dropRuns + 1
    /\ fault' = fault \cup (IF \E k \in DOMAIN RootDropCalls : RootDropCalls[k].ptr = NULL
                            THEN {"dealloc_null"} ELSE {})
    /\ w' = [w EXCEPT !.alive = FALSE]
    /\ rh' = [r \in Readers |-> NoReader]
    /\ UNCHANGED <<sizeOfT, inners, len, strong, pushLog, allocLog, calc>>

----------------------------------------------------------------------------
(* Specifications *)

WriterStep ==
    \/ PushCheck
    \/ AllocStep
    \/ PushWrite
    \/ PushStore

HandleStep ==
    \/ \E r, n \in Readers : CloneReader(r, n)
    \/ \E n \in Readers : NewReadHandle(n)
    \/ \E r \in Readers : DropReader(r)
    \/ DropWriter

ReaderStep ==
    \/ \E r \in Readers : ReaderLen(r)
    \/ \E r \in Readers : \E idx \in 0 .. MaxPush : ReadBegin(r, idx)
    \/ \E r \in Readers : ReadSlot(r)
    \/ \E r \in Readers : ReadCell(r)

\* the value the test drivers push: n of `for n in 0..size { wh.push(n) }`
\* (test.rs:7-9, loom_test.rs:13-15), () for a zero-sized T (test.rs:16-18)
DriverValue == IF sizeOfT = 0 THEN 0 ELSE Len(pushLog)

\* one writer thread, concurrent reader threads, handles created and dropped
Next ==
    \/ (len < MaxPush /\ PushLoad(DriverValue))
    \/ WriterStep
    \/ ReaderStep
    \/ HandleStep

Spec == Init /\ [][Next]_vars

\* the writer up to MaxPushSeq pushes, handles created and dropped, no reads
NextSeq ==
    \/ (len < MaxPushSeq /\ PushLoad(DriverValue))
    \/ WriterStep
    \/ HandleStep

SpecSeq == Init /\ [][NextSeq]_vars

\* one thread pushing arbitrary values and reading in between
NextVals ==
    \/ \E v \in Vals : len < MaxPushVals /\ PushLoad(v)
    \/ WriterStep
    \/ \E idx \in 0 .. MaxPushVals : WriterRead(idx)

SpecVals == Init /\ [][NextVals]_vars

\* the index arithmetic alone: one call of split_idx on two indices, or of max_len
Idxs == 0 .. (Shl(1, MaxBlock) - 1)

CallSplitIdx(i, j) ==
    /\ calc = NoCall
    /\ calc' = [op |-> "split_idx", arg |-> <<i, j>>,
                res |-> <<split_idx(i), split_idx(j)>>]
    /\ UNCHANGED <<sizeOfT, inners, len, heap, strong, w, rh, pushLog, allocLog,
                   deallocs, dropRuns, fault>>

CallMaxLen(b) ==
    /\ calc = NoCall
    /\ calc' = [op |-> "max_len", arg |-> b, res |-> max_len(b)]
    /\ UNCHANGED <<sizeOfT, inners, len, heap, strong, w, rh, pushLog, allocLog,
                   deallocs, dropRuns, fault>>

\* the first lines of a push of index idx in both older variants: split_idx,
\* then the test that decides whether a block is allocated
CallTrigger(idx) ==
    /\ calc = NoCall
    /\ calc' = [op |-> "trigger", arg |-> idx,
                res |-> <<split_idx(idx), HandleNeedsAlloc(idx), RootNeedsAlloc(idx)>>]
    /\ UNCHANGED <<sizeOfT, inners, len, heap, strong, w, rh, pushLog, allocLog,
                   deallocs, dropRuns, fault>>

NextIdx ==
    \/ \E i, j \in Idxs : CallSplitIdx(i, j)
    \/ \E b \in 0 .. MaxBlock : CallMaxLen(b)
    \/ \E i \in Idxs : CallTrigger(i)

SpecIdx == Init /\ [][NextIdx]_vars

\* one writer thread pushing and the reader of Stele::new() calling len, read,
\* get, indexing and try_read with any index, as tests::reads
\* (append/reader.rs:124-135) does, on its own thread
NextApi ==
    \/ (len < MaxPush /\ PushLoad(DriverValue))
    \/ WriterStep
    \/ \E r \in Readers : ReaderLen(r)
    \/ \E r \in Readers : \E op \in AssertingOps : \E idx \in 0 .. MaxPush :
          ReadCall(r, op, idx)
    \/ \E r \in Readers : \E idx \in 0 .. MaxPush : TryReadCall(r, idx)
    \/ \E r \in Readers : ReadSlot(r)
    \/ \E r \in Readers : CallReturn(r)
    \/ \E r \in Readers : ReaderUnwind(r)

SpecApi == Init /\ [][NextApi]_vars

\* one writer thread pushing while reader threads iterate, by reference
\* (`for i in &rh`, loom_test.rs:17-26) or by copy; handles are made by clone
\* and new_read_handle
NextIter ==
    \/ (len < MaxPushIt /\ PushLoad(DriverValue))
    \/ WriterStep
    \/ \E r, n \in Readers : rh[r].it # "copy" /\ CloneReader(r, n)
    \/ \E n \in Readers : NewReadHandle(n)
    \/ \E r \in Readers : \E kind \in IterKinds :
          /\ Cardinality({q \in Readers : rh[q].it # "none"}) < MaxIters
          /\ IterNew(r, kind)
    \/ \E r \in Readers : IterNext(r)
    \/ \E r \in Readers : rh[r].it # "none" /\ ReadSlot(r)
    \/ \E r \in Readers : IterYield(r)
    \/ \E r \in Readers : IterEnd(r)

SpecIter == Init /\ [][NextIter]_vars

\* the same threads with the owning-copy iterator of append_alloc/iter.rs and
\* iter.rs; the push of append_alloc.rs:93-109 is the push of append.rs
NextCopyIter ==
    \/ (len < MaxPushIt /\ PushLoad(DriverValue))
    \/ WriterStep
    \/ \E n \in Readers : NewReadHandle(n)
    \/ \E r \in Readers :
          /\ Cardinality({q \in Readers : rh[q].it # "none"}) < MaxIters
          /\ CopyIterNew(r)
    \/ \E r \in Readers : CopyIterNext(r)
    \/ \E r \in Readers : rh[r].it # "none" /\ ReadSlot(r)
    \/ \E r \in Readers : IterYield(r)
    \/ \E r \in Readers : IterEnd(r)

SpecCopyIter == Init /\ [][NextCopyIter]_vars

\* the writer pushes, then every reader handle iterates while the writer is
\* idle (test.rs:36-54: the structure is filled, then iterated)
NextIterAll ==
    \/ /\ len < MaxPushIt
       /\ \A q \in Readers : rh[q].it = "none"
       /\ PushLoad(DriverValue)
    \/ WriterStep
    \/ \E r, n \in Readers : rh[r].it # "copy" /\ CloneReader(r, n)
    \/ \E n \in Readers : NewReadHandle(n)
    \/ \E r \in Readers : \E kind \in IterKinds : w.pc = "idle" /\ IterNew(r, kind)
    \/ \E r \in Readers : IterNext(r)
    \/ \E r \in Readers : rh[r].it # "none" /\ ReadSlot(r)
    \/ \E r \in Readers : IterYield(r)
    \/ \E r \in Readers : IterEnd(r)

SpecIterAll == Init /\ [][NextIterAll]_vars

\* a source of up to MaxSrc elements collected into a Stele, to_handles, then
\* pushes through the WriteHandle (test.rs:39: collect::<Stele<_>>().to_handles())
NextBulk ==
    \/ \E v \in Vals : Owned /\ len < MaxSrc /\ PushLoad(v)
    \/ WriterStep
    \/ to_handles
    \/ DropOwned
    \/ (~Owned /\ len < MaxPushVals /\ PushLoad(DriverValue))
    \/ \E r \in Readers : DropReader(r)
    \/ (~Owned /\ DropWriter)

SpecBulk == InitOwned /\ [][NextBulk]_vars

\* one thread holding the WriteHandle and reader handles made by new(), clone()
\* and new_read_handle(), before or after pushes, reading through both kinds
NextShare ==
    \/ (len < MaxPush /\ PushLoad(DriverValue))
    \/ WriterStep
    \/ \E r, n \in Readers : CloneReader(r, n)
    \/ \E n \in Readers : NewReadHandle(n)
    \/ \E r \in Readers : DropReader(r)
    \/ \E r \in Readers : \E idx \in 0 .. MaxPush : ReadThroughBoth(r, idx)

SpecShare == Init /\ [][NextShare]_vars

\* every way a handle comes to exist or goes away: a structure made by new()
\* or collected and given to to_handles; pushes; clone and new_read_handle;
\* iterators borrowing or taking a ReadHandle; drops
InitAny == Init \/ InitOwned

NextHandles ==
    \/ (len < MaxPushIt /\ PushLoad(DriverValue))
    \/ WriterStep
    \/ to_handles
    \/ \E r, n \in Readers : rh[r].it # "copy" /\ CloneReader(r, n)
    \/ \E n \in Readers : ~Owned /\ NewReadHandle(n)
    \/ \E r \in Readers : \E kind \in IterKinds :
          /\ Cardinality({q \in Readers : rh[q].it # "none"}) < MaxIters
          /\ IterNew(r, kind)
    \/ \E r \in Readers : IterEnd(r)
    \/ (~Owned /\ DropWriter)
    \/ \E r \in Readers : rh[r].it = "none" /\ DropReader(r)

SpecHandles == InitAny /\ [][NextHandles]_vars

\* the reader threads take turns: no reader is inside a call or holds an iterator
NoneBusy == \A q \in Readers : rh[q].it = "none" /\ rh[q].pc = "idle"

\* every operation of the reader side next to the writer: len, read, get,
\* indexing and try_read with any index, clone, iteration by reference and by
\* copy; the writer's thread calls len and is_empty between its pushes
NextFrame ==
    \/ (len < MaxPushFrame /\ PushLoad(DriverValue))
    \/ WriterStep
    \/ WriterLen
    \/ \E r \in Readers : ReaderLen(r)
    \/ \E r \in Readers : \E op \in AssertingOps : \E idx \in 0 .. MaxPushFrame :
          NoneBusy /\ ReadCall(r, op, idx)
    \/ \E r \in Readers : \E idx \in 0 .. MaxPushFrame : NoneBusy /\ TryReadCall(r, idx)
    \/ \E r \in Readers : ReadSlot(r)
    \/ \E r \in Readers : CallReturn(r)
    \/ \E r \in Readers : ReaderUnwind(r)
    \/ \E r, n \in Readers : rh[r].it # "copy" /\ CloneReader(r, n)
    \/ \E r \in Readers : \E kind \in IterKinds : NoneBusy /\ IterNew(r, kind)
    \/ \E r \in Readers : IterNext(r)
    \/ \E r \in Readers : IterYield(r)
    \/ \E r \in Readers : IterEnd(r)

SpecFrame == Init /\ [][NextFrame]_vars

\* the steps of a reader's thread after the call has passed its bounds check
ReaderFinish(r) == ReadSlot(r) \/ CallReturn(r)

\* the threads of SpecApi under a scheduler that keeps running every thread
\* that has a step to take: each thread runs straight-line code without locks
\* or loops over shared state (append.rs:76-147)
SpecWait ==
    /\ Init /\ [][NextApi]_vars
    /\ WF_vars(WriterStep)
    /\ \A r \in Readers : WF_vars(ReaderFinish(r))

\* the indices at the block boundaries of the whole range of a usize, written
\* as bits: 2^k, 2^k + 1 and 2^(k+1) - 1 for every k below the word size, and 0
BoundaryBits ==
    {<<>>} \cup
    UNION {{[i \in 1 .. (k + 1) |-> IF i = 1 THEN 1 ELSE 0],
            [i \in 1 .. (k + 1) |-> IF i \in {1, k + 1} THEN 1 ELSE 0],
            [i \in 1 .. (k + 1) |-> 1]} : k \in 0 .. (UsizeBits - 1)}

\* the indices of the loom build's tests
LoomIdxs == 0 .. 255

CallSplitIdxBits(b) ==
    /\ calc = NoCall
    /\ calc' = [op |-> "split_idx_bits", arg |-> b, res |-> split_idx_bits(b)]
    /\ UNCHANGED <<sizeOfT, inners, len, heap, strong, w, rh, pushLog, allocLog,
                   deallocs, dropRuns, fault>>

CallSplitIdxLoom(idx) ==
    /\ calc = NoCall
    /\ calc' = [op |-> "split_idx_loom", arg |-> idx, res |-> split_idx_loom(idx)]
    /\ UNCHANGED <<sizeOfT, inners, len, heap, strong, w, rh, pushLog, allocLog,
                   deallocs, dropRuns, fault>>

\* split_idx of both builds on one index
CallSplitIdxBoth(idx) ==
    /\ calc = NoCall
    /\ calc' = [op |-> "split_idx_both", arg |-> idx,
                res |-> <<split_idx(idx), split_idx_loom(idx)>>]
    /\ UNCHANGED <<sizeOfT, inners, len, heap, strong, w, rh, pushLog, allocLog,
                   deallocs, dropRuns, fault>>

\* the first lines of Drop in both builds on a structure of length n
CallNumInnersBoth(n) ==
    /\ calc = NoCall
    /\ calc' = [op |-> "num_inners_both", arg |-> n,
                res |-> <<root_num_inners(n), root_num_inners_loom(n)>>]
    /\ UNCHANGED <<sizeOfT, inners, len, heap, strong, w, rh, pushLog, allocLog,
                   deallocs, dropRuns, fault>>

\* split_idx alone on the whole range of the index counter
NextCap ==
    \/ \E b \in BoundaryBits : CallSplitIdxBits(b)
    \/ \E idx \in LoomIdxs : CallSplitIdxLoom(idx)
    \/ \E idx \in LoomIdxs : CallSplitIdxBoth(idx)
    \/ \E n \in LoomIdxs : CallNumInnersBoth(n)

SpecCap == Init /\ [][NextCap]_vars

\* the crate-root Stele: one thread pushing, one thread calling len, read and
\* try_read, and the drop of the structure at the end
NextRoot ==
    \/ (len < MaxPushRoot /\ RootPush(DriverValue))
    \/ RootPushCheck
    \/ RootAllocate
    \/ RootPushWrite
    \/ \E r \in Readers : RootLen(r)
    \/ \E r \in Readers : \E idx \in 0 .. MaxPushRoot : RootRead(r, idx)
    \/ \E r \in Readers : \E idx \in 0 .. MaxPushRoot : RootTryRead(r, idx)
    \/ \E r \in Readers : RootReadRaw(r)
    \/ \E r \in Readers : RootReturn(r)
    \/ RootDrop

SpecRoot == Init /\ [][NextRoot]_vars

\* the crate-root Stele shared by two threads that both push and that read
\* the length between their pushes
NextRootPar ==
    \/ (len < MaxPushPar /\ RootPush(DriverValue))
    \/ RootPushCheck
    \/ RootAllocate
    \/ RootPushWrite
    \/ \E r \in Readers : len < MaxPushPar /\ RootPushBy(r, DriverValue)
    \/ \E r \in Readers : RootPushCheckBy(r)
    \/ \E r \in Readers : RootAllocateBy(r)
    \/ \E r \in Readers : RootPushWriteBy(r)
    \/ \E r \in Readers : RootLen(r)

SpecRootPar == Init /\ [][NextRootPar]_vars

\* the allocations of a long run of pushes, on a structure made by new() or
\* collected by from_iter and then pushed to through the WriteHandle of
\* to_handles
NextAlloc ==
    \/ (len < MaxPushSeq /\ PushLoad(DriverValue))
    \/ WriterStep
    \/ to_handles

SpecAlloc == InitAny /\ [][NextAlloc]_vars

----------------------------------------------------------------------------
(* Properties *)

Installed == {i \in Slots : inners[i] # NULL}

\* the cell of index i is reachable through its slot and has been written
CellWritten(i) ==
    LET p == read_raw(i)
    IN  \/ p[1] = DANGLING
        \/ /\ IsBlock(p[1])
           /\ p[2] < heap[p[1]].cap
           /\ heap[p[1]].cells[p[2] + 1] # {}

\* the value given to the push that was assigned index i, if there was one
Pushed(i) == {pushLog[k][1] : k \in {k \in DOMAIN pushLog : pushLog[k][2] = i}}

HandlesAlive == (IF w.alive THEN 1 ELSE 0) + Cardinality({r \in Readers : rh[r].alive})

\* C1: after any sequence of N pushes through the WriteHandle the i-th push got
\* index i, and read(i) gives exactly the value of the i-th push for every i < N,
\* both as the result of a read call and for every index at once.
C1_AppendOrder ==
    /\ \A k \in DOMAIN pushLog : pushLog[k][2] = k - 1
    /\ (calc.op = "read" /\ calc.arg[1] < calc.arg[2]) =>
         {calc.res} = Pushed(calc.arg[1])
    /\ w.pc = "idle" =>
         /\ len = Len(pushLog)
         /\ \A i \in 0 .. (len - 1) :
              CellValues(read_raw(i)[1], read_raw(i)[2]) = Pushed(i)

C1_Witness ==
    /\ sizeOfT = 1024 /\ len = 5 /\ w.pc = "idle"
    /\ calc.op = "read" /\ calc.arg = <<3, 5>> /\ calc.res = 2
    /\ pushLog[3][1] = 1

\* C2: in every state, the writer stopped anywhere inside push and readers
\* running, every index below len has its slot non-null and its cell written.
C2_NoUseBeforeWrite ==
    \A i \in 0 .. (len - 1) : inners[split_idx(i)[1]] # NULL /\ CellWritten(i)

C2_Witness ==
    /\ w.pc = "write" /\ w.idx = 3 /\ len = 3
    /\ \E r \in Readers : rh[r].pc = "cell" /\ rh[r].idx = 2

\* C3: a reader that loaded a length L and later reads idx < L never loads a null
\* slot pointer, never dereferences an unwritten cell, and the cell it
\* dereferences holds the value of the idx-th push.
C3_ReaderSafe ==
    /\ fault \cap {"null_deref", "unwritten_read", "out_of_bounds"} = {}
    /\ \A r \in Readers :
         /\ rh[r].pc \in {"slot", "cell"} => rh[r].idx < rh[r].obs
         /\ rh[r].pc = "cell" =>
              /\ rh[r].ptr # NULL
              /\ CellFaults(rh[r].ptr, split_idx(rh[r].idx)[2]) = {}
              /\ CellValues(rh[r].ptr, split_idx(rh[r].idx)[2]) = Pushed(rh[r].idx)

C3_Witness ==
    /\ sizeOfT = 1024
    /\ w.pc = "alloc" /\ w.idx = 2
    /\ \E r \in Readers : rh[r].pc = "cell" /\ rh[r].idx = 1 /\ rh[r].obs = 2

\* C4: the length never decreases: the last step of a push raises it by exactly
\* 1 and no other step changes it; what a handle observes as len() never
\* decreases, so is_empty() never turns from false to true.
C4_LenMonotone ==
    [][/\ len' >= len
       /\ (w.pc = "store" /\ w'.pc = "idle") => len' = len + 1
       /\ len' # len => (w.pc = "store" /\ w'.pc = "idle")
       /\ \A r \in Readers :
            (rh[r].alive /\ rh'[r].alive) =>
               /\ rh'[r].obs >= rh[r].obs
               /\ rh[r].obs # 0 => rh'[r].obs # 0]_vars

C4_Witness ==
    /\ len = 4
    /\ \E r \in Readers : rh[r].alive /\ rh[r].obs = 2

\* C5: split_idx is a bijection from the indices onto the pairs (block, offset)
\* with 0 <= offset < max_len(block): two indices with the same pair are equal,
\* the offset is below max_len of the block, and every pair of a block is the
\* image of an index.
C5_SplitBijection ==
    /\ calc.op = "split_idx" =>
         /\ calc.res[1] = calc.res[2] => calc.arg[1] = calc.arg[2]
         /\ calc.res[1][1] >= 0
         /\ calc.res[1][2] >= 0
         /\ calc.res[1][2] < max_len(calc.res[1][1])
    /\ calc.op = "max_len" =>
         \A o \in 0 .. (calc.res - 1) :
            \E idx \in Idxs : split_idx(idx) = <<calc.arg, o>>

C5_Witness ==
    /\ calc.op = "split_idx"
    /\ calc.arg = <<5, 6>>
    /\ calc.res = << <<3, 1>>, <<3, 2>> >>

\* floor(log2(x)) for x >= 1, by search
Log2Floor(x) == CHOOSE k \in 0 .. (MaxBlock + 1) : Shl(1, k) <= x /\ x < Shl(1, k + 1)

LexLess(a, b) == a[1] < b[1] \/ (a[1] = b[1] /\ a[2] < b[2])

\* C6: split_idx(0) = (0,0); for idx >= 1 split_idx(idx) is
\* (floor(log2(idx)) + 1, idx - 2^floor(log2(idx))); the listed examples hold;
\* and a larger index has the later (block, offset) pair.
C6_SplitFormula ==
    calc.op = "split_idx" =>
       LET i == calc.arg[1]
           j == calc.arg[2]
       IN  /\ i = 0 => calc.res[1] = <<0, 0>>
           /\ i >= 1 => calc.res[1] = <<Log2Floor(i) + 1, i - Shl(1, Log2Floor(i))>>
           /\ i = 1 => calc.res[1] = <<1, 0>>
           /\ i = 2 => calc.res[1] = <<2, 0>>
           /\ i = 3 => calc.res[1] = <<2, 1>>
           /\ i = 4 => calc.res[1] = <<3, 0>>
           /\ i = 7 => calc.res[1] = <<3, 3>>
           /\ i = 8 => calc.res[1] = <<4, 0>>
           /\ i < j => LexLess(calc.res[1], calc.res[2])

C6_Witness ==
    /\ calc.op = "split_idx"
    /\ calc.arg = <<7, 8>>
    /\ calc.res = << <<3, 3>>, <<4, 0>> >>

\* C7: a slot pointer changes at most once, from null to the pointer of a block
\* just allocated; an installed pointer is the same in every later state
\* (teardown included: Drop reads the slots and leaves them as they are).
C7_OneShotSlots ==
    [][\A i \in Slots :
         /\ inners[i] # NULL => inners'[i] = inners[i]
         /\ inners'[i] # inners[i] =>
              /\ inners[i] = NULL
              /\ inners'[i] \in ((DOMAIN heap') \ (DOMAIN heap)) \cup {DANGLING}]_vars

C7_Witness ==
    /\ sizeOfT = 1024 /\ len = 4
    /\ inners[3] = NULL /\ inners[2] # NULL /\ inners[2] # inners[1]
    /\ dropRuns = 1

\* C8: for every final length and every INITIAL_SIZE, the slots Drop hands to
\* dealloc_inner are exactly the slots the pushes installed, each once, with the
\* pointer installed there; every block allocated is freed once.
C8_Reclamation ==
    dropRuns > 0 =>
       /\ {deallocs[k].slot : k \in DOMAIN deallocs} = Installed
       /\ Len(deallocs) = Cardinality(Installed)
       /\ \A k \in DOMAIN deallocs : deallocs[k].ptr = inners[deallocs[k].slot]
       /\ Installed = {allocLog[k].slot : k \in DOMAIN allocLog}
       /\ \A k \in DOMAIN allocLog : allocLog[k].ok
       /\ \A p \in DOMAIN heap : heap[p].frees = 1

C8_Witness ==
    /\ dropRuns = 1 /\ sizeOfT = 1 /\ len = 33
    /\ Len(deallocs) = 7
    /\ Len(heap) = 7

\* C9: every block is deallocated with the element count it was allocated
\* with: the length given to alloc_inner when slot i was installed is the
\* length Drop gives to dealloc_inner for slot i.
C9_SameLength ==
    /\ \A k \in DOMAIN allocLog :
         allocLog[k].ok => allocLog[k].len = dealloc_len(allocLog[k].slot)
    /\ \A k \in DOMAIN deallocs :
         \E a \in DOMAIN allocLog :
            /\ allocLog[a].ok
            /\ allocLog[a].slot = deallocs[k].slot
            /\ allocLog[a].ptr = deallocs[k].ptr
            /\ allocLog[a].len = deallocs[k].len
    /\ \A p \in DOMAIN heap : heap[p].frees > 0 => heap[p].freeLen = heap[p].cap

C9_Witness ==
    /\ dropRuns = 1 /\ sizeOfT = 2 /\ len = 17
    /\ \E k \in DOMAIN deallocs :
         /\ deallocs[k].slot = 5 /\ deallocs[k].len = 16
         /\ heap[deallocs[k].ptr].cap = 16

\* C10: blocks are reclaimed if and only if no handle is left: the Arc counts
\* the handles; while a handle exists Drop has not run, no block is freed and
\* every index below len is readable (also with the writer handle gone); with
\* no handle left Drop has run exactly once.
C10_ReclaimAtLastHandle ==
    /\ strong = HandlesAlive
    /\ HandlesAlive > 0 =>
         /\ dropRuns = 0 /\ deallocs = <<>>
         /\ \A p \in DOMAIN heap : heap[p].frees = 0
         /\ \A i \in 0 .. (len - 1) :
              CellFaults(read_raw(i)[1], read_raw(i)[2]) = {}
    /\ HandlesAlive = 0 => dropRuns = 1

C10_Witness ==
    /\ HandlesAlive = 0 /\ dropRuns = 1 /\ len = 4
    /\ \A p \in DOMAIN heap : heap[p].frees = 1
    /\ Len(heap) = 3

\* C11: try_read(idx) gives None when idx is at or beyond the length it loaded
\* and Some(value of the idx-th push) when idx is below it; it loads a slot
\* and dereferences a cell only for an index below the loaded length, also
\* while a push is in progress.
C11_TryReadBounded ==
    \A r \in Readers :
       rh[r].op = "try_read" =>
          /\ rh[r].pc \in {"none", "slot", "cell"}
          /\ rh[r].pc = "none" <=> rh[r].idx >= rh[r].obs
          /\ rh[r].pc \in {"slot", "cell"} => rh[r].idx < rh[r].obs
          /\ rh[r].pc = "cell" =>
               /\ rh[r].ptr # NULL
               /\ CellFaults(rh[r].ptr, split_idx(rh[r].idx)[2]) = {}
               /\ CallResults(r) = Pushed(rh[r].idx)

C11_Witness ==
    /\ sizeOfT = 2
    /\ w.pc = "store" /\ w.idx = 3 /\ len = 3
    /\ CellWritten(3)
    /\ \E r \in Readers :
         rh[r].op = "try_read" /\ rh[r].pc = "none" /\ rh[r].idx = 3 /\ rh[r].obs = 3

\* C12: read, get and indexing called with idx >= len fail the bounds
\* assertion: the call returns no value and changes nothing of the shared
\* state; called with idx below the length, or below a length the handle has
\* observed before, the assertion passes whatever the writer does.
C12_BoundsAssert ==
    [][\A r \in Readers :
         /\ (rh[r].pc = "idle" /\ rh'[r].pc = "dead") =>
               /\ rh'[r].op \in AssertingOps
               /\ rh'[r].idx >= len
               /\ "assert_failed" \in fault'
               /\ UNCHANGED <<inners, len, heap, strong, deallocs, dropRuns>>
         /\ (rh[r].pc = "idle" /\ rh'[r].op \in AssertingOps) =>
               /\ rh'[r].idx >= len => rh'[r].pc = "dead"
               /\ rh'[r].idx < len => rh'[r].pc = "slot"
               /\ rh'[r].idx < rh[r].obs => rh'[r].pc = "slot"
         /\ rh[r].pc = "dead" => (rh'[r].pc = "dead" \/ ~rh'[r].alive)]_vars

C12_Witness ==
    /\ sizeOfT = 1 /\ len = 2 /\ w.pc = "write"
    /\ "assert_failed" \in fault
    /\ \E r \in Readers : rh[r].pc = "dead" /\ rh[r].op = "index" /\ rh[r].idx = 2

\* the snapshot discipline of an iterator of r: pos counts the calls of next
\* that found an item, never beyond the snapshot; the k-th item yielded is the
\* value of the push with index k - 1; the read inside next is at pos - 1; next
\* has returned None only with all of 0 .. snap - 1 yielded and nothing more
IterSnapshot(r) ==
    /\ rh[r].pc # "dead"
    /\ rh[r].snap <= len
    /\ rh[r].pos <= rh[r].snap
    /\ Len(rh[r].out) = rh[r].pos - (IF rh[r].pc \in {"slot", "cell"} THEN 1 ELSE 0)
    /\ rh[r].pc \in {"slot", "cell"} => rh[r].idx = rh[r].pos - 1
    /\ \A k \in DOMAIN rh[r].out : {rh[r].out[k]} = Pushed(k - 1)
    /\ rh[r].fin => (rh[r].pos = rh[r].snap /\ Len(rh[r].out) = rh[r].snap)

\* a step keeps the iterator of r at its construction-time length and, once
\* next has returned None, at what it has yielded
IterFixed(r) ==
    /\ (rh[r].it = "none" /\ rh'[r].it # "none") =>
          (rh'[r].snap = len /\ rh'[r].pos = 0 /\ rh'[r].out = <<>>)
    /\ (rh[r].it # "none" /\ rh'[r].it # "none") =>
          /\ rh'[r].it = rh[r].it
          /\ rh'[r].snap = rh[r].snap
          /\ rh[r].fin => (rh'[r].fin /\ rh'[r].out = rh[r].out)

\* C13: a RefIterator snapshots the length L at construction, yields exactly
\* the elements at indices 0 .. L-1 in that order and then None on every
\* further call; pushes completing during the iteration add nothing to it.
C13_RefIteratorSnapshot ==
    /\ [](\A r \in Readers : rh[r].it = "ref" => IterSnapshot(r))
    /\ [][\A r \in Readers : (rh[r].it = "ref" \/ rh'[r].it = "ref") => IterFixed(r)]_vars

C13_Witness ==
    /\ sizeOfT = 1024 /\ len = 3
    /\ \E r \in Readers :
         /\ rh[r].it = "ref" /\ rh[r].fin
         /\ rh[r].snap = 2 /\ rh[r].out = <<0, 1>>

\* C14: a CopyIterator follows the same discipline: it yields copies of
\* exactly the elements at indices 0 .. L-1, L the length when it was
\* constructed, and stops there even when pushes complete meanwhile.
C14_CopyIteratorSnapshot ==
    /\ [](\A r \in Readers : rh[r].it = "copy" => IterSnapshot(r))
    /\ [][\A r \in Readers : (rh[r].it = "copy" \/ rh'[r].it = "copy") => IterFixed(r)]_vars

C14_Witness ==
    /\ sizeOfT = 1 /\ len = 3
    /\ \E r \in Readers :
         /\ rh[r].it = "copy" /\ rh[r].fin
         /\ rh[r].snap = 1 /\ rh[r].out = <<0>>

\* C15: with the writer idle after N completed pushes, every reader handle
\* (the original and the clones) that iterates from the start, by reference
\* or by copy, yields exactly the N pushed values in push order.
C15_AllReadersSeeAll ==
    \A r \in Readers :
       (rh[r].it # "none" /\ rh[r].fin) =>
          /\ w.pc = "idle"
          /\ rh[r].snap = len
          /\ Len(rh[r].out) = Len(pushLog)
          /\ \A k \in DOMAIN rh[r].out : rh[r].out[k] = pushLog[k][1]

C15_Witness ==
    /\ sizeOfT = 2 /\ len = 3
    /\ rh[1].it = "ref" /\ rh[1].fin /\ rh[1].out = <<0, 1, 2>>
    /\ rh[2].it = "copy" /\ rh[2].fin /\ rh[2].out = <<0, 1, 2>>

\* C16: collecting N elements and calling to_handles gives a writer/reader
\* pair on a structure with len = N whose element i is the i-th source
\* element; a later push through that writer gets index N, and every
\* allocation step of it succeeds, for N = 0 as for N > 0.
C16_BulkConstruction ==
    /\ \A k \in DOMAIN pushLog : pushLog[k][2] = k - 1
    /\ \A k \in DOMAIN allocLog : allocLog[k].ok
    /\ fault = {}
    /\ calc.op = "to_handles" =>
         /\ calc.arg[1] = calc.arg[2]
         /\ len >= calc.arg[1]
         /\ dropRuns = 0 => strong = HandlesAlive
         /\ (w.pc = "idle" /\ dropRuns = 0) =>
               \A i \in 0 .. (len - 1) :
                  CellValues(read_raw(i)[1], read_raw(i)[2]) = {pushLog[i + 1][1]}
         /\ Len(pushLog) > calc.arg[1] => pushLog[calc.arg[1] + 1][2] = calc.arg[1]

C16_Witness ==
    /\ sizeOfT = 1024
    /\ calc.op = "to_handles" /\ calc.arg = <<2, 2>>
    /\ len = 3 /\ w.pc = "idle"
    /\ strong = 2 /\ w.alive /\ rh[1].alive
    /\ \E k \in DOMAIN allocLog : allocLog[k].slot = 2 /\ allocLog[k].ok
    /\ pushLog[1][1] = 2 /\ pushLog[2][1] = 1

\* C17: with a zero-sized T any number of pushes succeeds and len is the
\* number of pushes; the allocator is never called, neither by a push nor at
\* teardown; every slot a push or a read goes through holds the non-null
\* sentinel.
C17_ZeroSized ==
    sizeOfT = 0 =>
       /\ fault = {}
       /\ w.pc # "dead"
       /\ w.pc = "idle" => len = Len(pushLog)
       /\ heap = <<>>
       /\ AllocatorFrees(deallocs) = 0
       /\ \A k \in DOMAIN allocLog : allocLog[k].ptr = DANGLING /\ allocLog[k].ok
       /\ \A k \in DOMAIN deallocs : deallocs[k].ptr = DANGLING
       /\ \A i \in 0 .. (len - 1) : read_raw(i)[1] = DANGLING
       /\ w.pc \in {"write", "store"} => inners[split_idx(w.idx)[1]] = DANGLING
       /\ DANGLING # NULL

C17_Witness ==
    /\ sizeOfT = 0 /\ len = 33 /\ Len(pushLog) = 33
    /\ dropRuns = 1 /\ Len(deallocs) = 7
    /\ heap = <<>>

C19_EmptyAtConstruction ==
    /\ pushLog = <<>> =>
         /\ len = 0 /\ is_empty
         /\ \A i \in Slots : inners[i] = NULL
         /\ heap = <<>> /\ allocLog = <<>>
         /\ deallocs = <<>>
         /\ fault = {}
    /\ Len(allocLog) > 0 =>
         /\ Len(pushLog) > 0
         /\ allocLog[1].slot = 0
    /\ (w.pc = "check" /\ w.idx = 0) => (allocLog = <<>> /\ heap = <<>>)

C19_Witness ==
    /\ pushLog = <<>> /\ len = 0
    /\ HandlesAlive = 0 /\ dropRuns = 1
    /\ deallocs = <<>>
    /\ sizeOfT = 2

\* the Arc clones held by WriteHandles: all of them but the ReadHandles'
WriteHandles == strong - Cardinality({r \in Readers : rh[r].alive})

\* C20: at most one WriteHandle exists for a structure: new() and
\* to_handles() make exactly one, no other operation makes one, and so a
\* push starts only when the previous one has completed.
C20_SingleWriter ==
    /\ [](/\ WriteHandles \in {0, 1}
          /\ Owned => WriteHandles = 0
          /\ ~Owned => WriteHandles = (IF w.alive THEN 1 ELSE 0)
          /\ calc.op = "to_handles" => (w.alive <=> WriteHandles = 1)
          /\ w.pc # "idle" => (w.alive /\ (Owned \/ WriteHandles = 1)))
    /\ [][/\ WriteHandles' > WriteHandles =>
               (Owned /\ calc'.op = "to_handles" /\ WriteHandles' = 1)
          /\ Len(pushLog') > Len(pushLog) =>
               (w.pc = "idle" /\ len = Len(pushLog) /\ (Owned \/ WriteHandles = 1))]_vars

C20_Witness ==
    /\ calc.op = "to_handles"
    /\ WriteHandles = 1 /\ strong = 3
    /\ w.pc = "write" /\ w.idx = 2
    /\ rh[1].it = "copy" /\ rh[1].snap = 1
    /\ rh[2].alive

\* the writer's thread takes a step inside push
WriterMoves == w.pc \in {"check", "alloc", "write", "store"} /\ w' # w

\* C21: reader-side operations (len, is_empty, read, get, indexing, try_read,
\* iteration, clone) leave the length, every slot pointer and every cell as
\* they are: only a step of push changes them, and only the last step of push
\* changes the length; so a length returned by WriteHandle::len is the length
\* in every state until the next push is called.
C21_ReadersFrame ==
    /\ [](calc.op = "len" /\ Len(pushLog) = calc.arg[1] =>
            /\ len = calc.res[1]
            /\ calc.res[2] = (len = 0))
    /\ [][/\ ~WriterMoves => (len' = len /\ inners' = inners /\ heap' = heap)
          /\ (len' # len \/ inners' # inners \/ heap' # heap) =>
                (WriterMoves /\ w.pc \in {"alloc", "write", "store"})
          /\ len' # len => w.pc = "store"
          /\ (rh' # rh /\ strong' = strong) =>
                UNCHANGED <<len, inners, heap, w, pushLog, allocLog>>]_vars

C21_Witness ==
    /\ sizeOfT = 1 /\ len = 1 /\ w.pc = "idle"
    /\ calc.op = "len" /\ calc.arg = <<1>> /\ calc.res = <<1, FALSE>>
    /\ rh[1].it = "copy" /\ rh[1].out = <<0>> /\ rh[1].fin
    /\ rh[2].alive /\ rh[2].obs = 1
    /\ "assert_failed" \notin fault

\* the steps a running call of reader r still has to take
ReaderRank(r) ==
    CASE rh[r].pc = "slot" -> 2
      [] rh[r].pc \in {"cell", "none"} -> 1
      [] OTHER -> 0

\* the steps the running push still has to take
WriterRank ==
    CASE w.pc = "check" ->
           3 + (IF NeedsAlloc(w.idx) THEN Len(AllocateSlots(split_idx(w.idx)[1])) ELSE 0)
      [] w.pc = "alloc" -> 2 + Len(w.todo)
      [] w.pc = "write" -> 2
      [] w.pc = "store" -> 1
      [] OTHER -> 0

\* C22: no operation waits on another thread.  In every state, wherever the
\* writer stands inside a push, the next step of every running reader call can
\* be taken, and the next step of a running push can be taken whatever the
\* readers do; every step of a call lowers by one the number of steps the call
\* has left, which steps of other threads do not change and which is at most 2
\* for a reader call and at most INITIAL_SIZE + 4 for a push; when every thread
\* keeps being scheduled, every started push publishes its new length and
\* every started reader call finishes.
C22_WaitFree ==
    /\ [](/\ \A r \in Readers :
               (rh[r].alive /\ rh[r].pc \in {"slot", "cell", "none"}) =>
                  ENABLED ReaderFinish(r)
          /\ w.pc \in {"check", "alloc", "write", "store"} => ENABLED WriterStep
          /\ WriterRank <= INITIAL_SIZE + 4
          /\ w.pc # "dead")
    /\ [][/\ \A r \in Readers :
               /\ (rh[r].pc \in {"slot", "cell", "none"} /\ rh'[r] # rh[r]) =>
                     ReaderRank(r)' = ReaderRank(r) - 1
               /\ rh'[r] = rh[r] => ReaderRank(r)' = ReaderRank(r)
          /\ (w.pc # "idle" /\ w' # w) => WriterRank' = WriterRank - 1
          /\ w' = w => WriterRank' = WriterRank]_vars
    /\ \A k \in 0 .. (MaxPush - 1) :
          (w.pc = "check" /\ w.idx = k) ~> (len = k + 1 /\ w.pc = "idle")
    /\ \A r \in Readers :
          (rh[r].pc \in {"slot", "cell", "none"}) ~> (rh[r].pc = "idle")

C22_Witness ==
    /\ sizeOfT = 1024 /\ len = 2
    /\ w.pc = "alloc" /\ w.idx = 2
    /\ rh[1].pc = "cell" /\ rh[1].op = "get" /\ rh[1].idx = 1
    /\ ENABLED ReaderFinish(1)

\* C23: for every index representable in the machine word, the block number
\* split_idx gives is a position of the inners array: below 32 (append.rs),
\* below WORD_SIZE (lib.rs), and below 8 for idx < 256 in the loom build.
C23_SlotsCoverRange ==
    /\ calc.op = "split_idx_bits" =>
          (calc.res[1] < NumSlots /\ calc.res[1] < WORD_SIZE)
    /\ calc.op = "split_idx_loom" => calc.res[1] < LOOM_WORD_SIZE

\* C24: crate-root Stele: a reader that has observed len >= L + 1 is
\* guaranteed that the block of index L is installed and its cell written.
C24_RootPublication ==
    \A r \in Readers :
       rh[r].alive =>
          \A i \in 0 .. (rh[r].obs - 1) :
             inners[split_idx(i)[1]] # NULL /\ CellWritten(i)

\* C25: crate-root try_read: for every length n and every idx >= n,
\* try_read(idx) returns None and reads no cell that was never written.
C25_RootTryReadNone ==
    /\ (calc.op = "try_read" /\ calc.arg[1] >= calc.arg[2]) => calc.res
    /\ \A r \in Readers :
          (rh[r].op = "try_read" /\ rh[r].pc = "cell" /\ rh[r].idx >= len) =>
             AsRefNone(r)

\* C26: crate-root Drop: for every final length n, Drop deallocates every
\* block the n pushes installed, each exactly once.
C26_RootReclamation ==
    dropRuns > 0 =>
       /\ \A p \in DOMAIN heap : heap[p].frees = 1
       /\ sizeOfT # 0 =>
             /\ {deallocs[k].slot : k \in DOMAIN deallocs} = Installed
             /\ Len(deallocs) = Cardinality(Installed)

\* the cells of the blocks that exist, by pointer
Cells == [p \in DOMAIN heap |-> heap[p].cells]

\* the positions of the writer's thread inside push
InPush == w.pc \in {"check", "alloc", "write", "store"}

\* C27: inside push the effects come in the order load L, install the slots
\* if the trigger holds, write the cell of L, store L + 1: the length is L in
\* every state before the last step, which is the only one to change it; the
\* slots are installed before the cell is written and the cell is written
\* before the length is stored; nothing the unfinished push has done is at an
\* index below len.
C27_PushOrder ==
    /\ [](InPush =>
            /\ len = w.idx
            /\ pushLog[Len(pushLog)][2] = w.idx
            /\ \A i \in 0 .. (len - 1) :
                  /\ split_idx(i) # split_idx(w.idx)
                  /\ \A k \in DOMAIN w.todo : split_idx(i)[1] # w.todo[k]
            /\ w.pc \in {"check", "alloc"} => (sizeOfT # 0 => ~CellWritten(w.idx))
            /\ w.pc = "write" => inners[split_idx(w.idx)[1]] # NULL
            /\ w.pc = "store" =>
                  (inners[split_idx(w.idx)[1]] # NULL /\ CellWritten(w.idx)))
    /\ [][(w.alive /\ w'.pc # w.pc) =>
            /\ <<w.pc, w'.pc>> \in {<<"idle", "check">>, <<"check", "alloc">>,
                                    <<"check", "write">>, <<"alloc", "write">>,
                                    <<"write", "store">>, <<"store", "idle">>}
            /\ w.pc = "idle" => (w'.idx = len /\ UNCHANGED <<len, inners, heap>>)
            /\ w.pc = "check" => UNCHANGED <<len, inners, heap>>
            /\ w.pc = "alloc" => (len' = len /\ \A p \in DOMAIN heap : heap'[p] = heap[p])
            /\ w.pc = "write" =>
                  /\ len' = len /\ inners' = inners
                  /\ \A i \in 0 .. (len - 1) :
                        CellValues(read_raw(i)[1], read_raw(i)[2])' =
                           CellValues(read_raw(i)[1], read_raw(i)[2])
                  /\ sizeOfT # 0 =>
                        (Cells' # Cells /\ CellValues(read_raw(w.idx)[1], read_raw(w.idx)[2])' = {w.val})
            /\ w.pc = "store" => (len' = w.idx + 1 /\ UNCHANGED <<inners, heap>>)]_vars
    /\ [][len' # len => (w.pc = "store" /\ w'.pc = "idle" /\ len' = len + 1)]_vars

C27_Witness ==
    /\ sizeOfT = 2
    /\ w.pc = "store" /\ w.idx = 4 /\ len = 4
    /\ CellWritten(4)
    /\ Len(allocLog) = 4 /\ allocLog[4].slot = 3

\* C28: the compare_exchange of allocate never fails: when push calls
\* allocate(b) with b > 0 slot b is null, when it calls allocate(0) the slots
\* 0 ..= INITIAL_SIZE are all null, and they stay null until allocate installs
\* them; for every INITIAL_SIZE, on a structure made by new() and on one
\* collected by from_iter and pushed to after to_handles.
C28_CasNeverFails ==
    /\ [](/\ \A k \in DOMAIN allocLog : allocLog[k].ok
          /\ "cas_failed" \notin fault
          /\ w.pc # "dead"
          /\ w.pc = "alloc" =>
                (w.todo # <<>> /\ \A k \in DOMAIN w.todo : inners[w.todo[k]] = NULL))
    /\ [][(w.pc = "check" /\ w'.pc = "alloc") =>
            LET b == split_idx(w.idx)[1]
            IN  /\ b > 0 => (w'.todo = <<b>> /\ inners[b] = NULL)
                /\ b = 0 =>
                      /\ Len(w'.todo) = INITIAL_SIZE + 1
                      /\ \A i \in 0 .. INITIAL_SIZE :
                            inners[i] = NULL /\ w'.todo[i + 1] = i]_vars

C28_Witness ==
    /\ sizeOfT = 1 /\ calc.op = "to_handles" /\ calc.arg = <<7, 7>>
    /\ w.pc = "alloc" /\ w.idx = 8 /\ w.todo = <<4>>
    /\ inners[4] = NULL /\ inners[3] # NULL
    /\ Len(allocLog) = 4

\* C29: when push writes the cell (block, offset) of index L the slot block
\* is installed, with a block of capacity max_len(block), and offset is below
\* max_len(block): no null slot is dereferenced and no write falls outside its
\* block, for every L and every INITIAL_SIZE, the eagerly allocated blocks
\* included.
C29_WriteInBounds ==
    /\ fault \cap {"writer_null_deref", "writer_out_of_bounds"} = {}
    /\ w.pc = "write" =>
          LET block == split_idx(w.idx)[1]
              offset == split_idx(w.idx)[2]
              p == inners[block]
          IN  /\ p # NULL
              /\ offset < max_len(block)
              /\ sizeOfT # 0 =>
                    (IsBlock(p) /\ heap[p].cap = max_len(block) /\ heap[p].frees = 0)
              /\ sizeOfT = 0 => p = DANGLING
              /\ \E k \in DOMAIN allocLog :
                    allocLog[k].slot = block /\ allocLog[k].ptr = p /\
                    allocLog[k].len = max_len(block)

C29_Witness ==
    /\ sizeOfT = 1 /\ w.pc = "write" /\ w.idx = 7
    /\ heap[inners[3]].cap = 4
    /\ Len(allocLog) = 4 /\ Len(pushLog) = 8

\* the slots n completed pushes have installed according to the schedule: the
\* initial run of first slots, then one slot for each power of two below n whose
\* block lies beyond the run
Schedule(n, first) ==
    IF n = 0 THEN {}
    ELSE (0 .. first) \cup
         {b \in Slots : b > first /\ Shl(1, b - 1) < n}

\* the initial run the schedule names for the element size
ClaimedInitialSize ==
    IF sizeOfT = 1 THEN 3 ELSE IF sizeOfT >= 2 /\ sizeOfT <= 1023 THEN 2 ELSE 1

\* C30: the allocation schedule: the push of index 0 installs exactly the slots
\* 0 ..= INITIAL_SIZE, INITIAL_SIZE being 3 for 1-byte elements, 2 for elements
\* of 2 to 1023 bytes and 1 otherwise (zero-sized included); a push of an index
\* idx > 0 installs exactly the slot split_idx(idx).0 when idx is a power of
\* two and that block number is above INITIAL_SIZE, and nothing otherwise.
C30_AllocationSchedule ==
    /\ [](/\ w.pc \in {"idle", "store"} =>
                /\ Installed = Schedule(Len(pushLog), ClaimedInitialSize)
                /\ Len(allocLog) = Cardinality(Installed)
          /\ \A k \in DOMAIN allocLog : inners[allocLog[k].slot] = allocLog[k].ptr)
    /\ [][(w.pc = "check" /\ w'.pc \in {"write", "store"}) =>
             /\ w.idx # 0
             /\ w'.pc = "write"
             /\ Installed' = Installed
             /\ ~(is_power_of_two(w.idx) /\ split_idx(w.idx)[1] > ClaimedInitialSize)]_vars
    /\ [][(w.pc = "alloc" /\ w'.pc = "write") =>
             /\ w.idx = 0 => Installed' = 0 .. ClaimedInitialSize
             /\ w.idx > 0 =>
                   /\ is_power_of_two(w.idx)
                   /\ split_idx(w.idx)[1] > ClaimedInitialSize
                   /\ Installed' \ Installed = {split_idx(w.idx)[1]}
                   /\ Len(allocLog') = Len(allocLog) + 1]_vars

C30_Witness ==
    /\ sizeOfT = 1023 /\ len = 5 /\ w.pc = "idle"
    /\ Installed = {0, 1, 2, 3}
    /\ Len(allocLog) = 4 /\ allocLog[4].slot = 3 /\ allocLog[3].slot = 2

\* C31: at teardown no null pointer is handed to dealloc_inner: the slots
\* Drop walks over are all installed and every slot that is still null lies
\* beyond them, so the assertion !ptr.is_null() of dealloc_inner never fails,
\* for every final length and every INITIAL_SIZE.
C31_NoNullDealloc ==
    /\ "dealloc_null" \notin fault
    /\ \A k \in DOMAIN deallocs : deallocs[k].ptr # NULL
    /\ dropRuns > 0 =>
          \A i \in Slots :
             inners[i] = NULL =>
                /\ i >= Len(deallocs)
                /\ \A k \in DOMAIN deallocs : deallocs[k].slot # i

C31_Witness ==
    /\ sizeOfT = 1024 /\ len = 5 /\ dropRuns = 1
    /\ Len(deallocs) = 4
    /\ inners[3] # NULL /\ inners[4] = NULL

\* C32: a cell goes from unwritten to written at most once, in the write step
\* of the push whose index it is, and never back; a written cell keeps its
\* value in every later state; so every written cell is the cell of an index
\* at most len holding the value pushed there, and a push of index L leaves
\* the cells of the indices below L as they are.
C32_WriteOnceCells ==
    /\ [](\A p \in DOMAIN heap : \A c \in DOMAIN heap[p].cells :
            heap[p].cells[c] # {} =>
               \E i \in 0 .. len :
                  /\ read_raw(i) = <<p, c - 1>>
                  /\ heap[p].cells[c] = Pushed(i)
                  /\ i = len => w.pc = "store")
    /\ [][\A p \in DOMAIN heap : \A c \in DOMAIN heap[p].cells :
            /\ p \in DOMAIN heap' /\ c \in DOMAIN heap'[p].cells
            /\ heap[p].cells[c] # {} => heap'[p].cells[c] = heap[p].cells[c]
            /\ heap'[p].cells[c] # heap[p].cells[c] =>
                  /\ w.pc = "write" /\ w'.pc = "store"
                  /\ w.idx = len
                  /\ read_raw(w.idx) = <<p, c - 1>>
                  /\ heap'[p].cells[c] = {w.val}]_vars
    /\ [][\A i \in 0 .. (len - 1) :
            LET c == read_raw(i)
            IN  /\ read_raw(i)' = c
                /\ IsBlock(c[1]) =>
                      /\ heap[c[1]].cells[c[2] + 1] = Pushed(i)
                      /\ heap'[c[1]].cells[c[2] + 1] = Pushed(i)]_vars

C32_Witness ==
    /\ sizeOfT = 2 /\ len = 4 /\ w.pc = "store" /\ w.idx = 4
    /\ pushLog[1][1] = 0 /\ pushLog[5][1] = 4
    /\ heap[inners[0]].cells[1] = {0}
    /\ heap[inners[3]].cells[1] = {4}

\* C33: the growth triggers of the two older variants coincide: for every index
\* idx the offset split_idx(idx).1 is 0 exactly when idx is 0 or a power of two
\* (1 = 2^0 included), and exactly then either push allocates: a push starts a
\* new block at the indices 0, 1, 2, 4, 8, ... and at no other.
C33_TriggersCoincide ==
    calc.op = "trigger" =>
       LET idx == calc.arg
           blockStart == idx = 0 \/ \E k \in 0 .. MaxBlock : idx = Shl(1, k)
       IN  /\ (calc.res[1][2] = 0) <=> blockStart
           /\ calc.res[2] <=> blockStart
           /\ calc.res[3] <=> blockStart
           /\ calc.res[2] <=> calc.res[3]

C33_Witness ==
    /\ calc.op = "trigger" /\ calc.arg = 1
    /\ calc.res = <<(<<1, 0>>), TRUE, TRUE>>

\* C36: the owning-copy iterators of the allocator-aware and the older variant
\* keep to the length at construction: they never go past it, they yield only
\* the elements below it, in order, and they end with exactly those, even if
\* pushes complete during the iteration.
C36_CopyIterSnapshot ==
    \A r \in Readers :
       (rh[r].alive /\ rh[r].it = "copy") =>
          /\ rh[r].pos <= rh[r].snap
          /\ Len(rh[r].out) <= rh[r].snap
          /\ \A k \in 1 .. Len(rh[r].out) : {rh[r].out[k]} = Pushed(k - 1)
          /\ rh[r].fin => Len(rh[r].out) = rh[r].snap

\* C37: on the range the loom build supports its index arithmetic is that of
\* the normal build: for every idx < 256 the loom split_idx returns the
\* (block, offset) of the normal split_idx, and for every length n < 256 the
\* loom Drop counts as many blocks as the normal Drop, at most 8.
C37_LoomAgrees ==
    /\ calc.op = "split_idx_both" =>
          /\ calc.res[2] = calc.res[1]
          /\ calc.res[2][1] \in 0 .. LOOM_WORD_SIZE
    /\ calc.op = "num_inners_both" =>
          /\ calc.res[2] = calc.res[1]
          /\ calc.res[2] \in 0 .. LOOM_WORD_SIZE
          /\ calc.res[2] = 0 <=> calc.arg = 0

C37_Witness ==
    /\ calc.op = "num_inners_both" /\ calc.arg = 255
    /\ calc.res = <<8, 8>>

\* the pushes of the crate-root Stele that have reserved an index and have not
\* returned: the thread (0 for w), the index and the step of each
RootPushers ==
    (IF w.pc # "idle" THEN {[t |-> 0, idx |-> w.idx, pc |-> w.pc]} ELSE {})
    \cup {[t |-> r, idx |-> rh[r].idx, pc |-> rh[r].pc] :
             r \in {q \in Readers : rh[q].op = "push"}}

\* the first index of block o
BlockStart(o) == IF o = 0 THEN 0 ELSE Shl(1, o - 1)

\* C34: with two pushes running concurrently on the crate-root Stele a push
\* can come to dereference a slot that is still null, and it does so only
\* because another push, the one of the block's first index, has reserved
\* its index and has not finished allocating; the length is ahead of the
\* written memory exactly for the indices of the pushes that have not returned.
C34_NullSlotWhileAllocating ==
    /\ \A a \in RootPushers :
          (a.pc \in {"write", "dead"} /\ inners[split_idx(a.idx)[1]] = NULL) =>
             /\ ~RootNeedsAlloc(a.idx)
             /\ \E b \in RootPushers :
                   /\ b.t # a.t
                   /\ b.idx = BlockStart(split_idx(a.idx)[1])
                   /\ b.pc \in {"check", "alloc"}
    /\ fault \subseteq {"writer_null_deref"}
    /\ "writer_null_deref" \in fault =>
          \E a \in RootPushers : a.pc = "dead" /\ ~RootNeedsAlloc(a.idx)
    /\ \A i \in 0 .. (len - 1) :
          (sizeOfT # 0 /\ ~CellWritten(i)) => \E a \in RootPushers : a.idx = i

C34_Witness ==
    /\ sizeOfT = 1 /\ len = 4
    /\ w.pc = "alloc" /\ w.idx = 2 /\ inners[2] = NULL
    /\ rh[1].obs = 3 /\ ~CellWritten(2)
    /\ rh[1].op = "push" /\ rh[1].idx = 3 /\ rh[1].pc = "dead"
    /\ "writer_null_deref" \in fault

\* C35: concurrent pushes on the crate-root Stele get distinct indices from
\* fetch_add, so no two of them write the same cell and at most one push ever
\* tries to install a given slot: the compare_exchange of allocate finds the
\* slot null and its expect never panics.
C35_RootCasNeverLoses ==
    /\ \A k \in DOMAIN pushLog : pushLog[k][2] = k - 1
    /\ \A a, b \in RootPushers : a.t # b.t => a.idx # b.idx
    /\ \A a \in RootPushers : a.idx < len
    /\ \A a \in RootPushers :
          a.pc = "alloc" => inners[split_idx(a.idx)[1]] = NULL
    /\ "cas_failed" \notin fault
    /\ \A k \in DOMAIN allocLog : allocLog[k].ok
    /\ \A j, k \in DOMAIN allocLog : j # k => allocLog[j].slot # allocLog[k].slot
    /\ \A i \in 0 .. (len - 1) :
          LET c == read_raw(i)
          IN  (IsBlock(c[1]) /\ heap[c[1]].cells[c[2] + 1] # {}) =>
                 /\ heap[c[1]].cells[c[2] + 1] = Pushed(i)
                 /\ \A a \in RootPushers : a.idx = i => a.pc = "dead"

C35_Witness ==
    /\ sizeOfT = 1 /\ len = 3
    /\ w.pc = "alloc" /\ w.idx = 1
    /\ rh[1].op = "push" /\ rh[1].pc = "alloc" /\ rh[1].idx = 2
    /\ Len(allocLog) = 1 /\ inners[1] = NULL /\ inners[2] = NULL

====
